---- MODULE Spec2Model ----
(***************************************************************************)
(* A model of the MortisPlay Q&A bot (src/bot.py) and of its companion     *)
(* HTTP API (src/server.py).                                               *)
(*                                                                         *)
(* The persisted document (QUESTIONS_FILE) is the variable `store`: the    *)
(* list under the key "questions", or the value Corrupt while the file     *)
(* does not parse as JSON.  The bot's in-memory maps are `spam_protection`,*)
(* `question_hashes` and `processed_updates`.  A text is a sequence of     *)
(* characters, a character a one-element string; Cyrillic letters are      *)
(* written "cy_<latin name>" (lower case) and "CY_<latin name>" (upper     *)
(* case) because the module is plain ASCII.                                *)
(*                                                                         *)
(* Handlers are coroutines: a handler runs without interruption from one   *)
(* `await` to the next, and while it is suspended in an `await` of an      *)
(* outbound message another update's handler may run.  The handlers that   *)
(* await between their read of the file and their write of it (approve,    *)
(* reject, cancel and the two batch commands) are modelled as tasks with a *)
(* program counter; every other handler reads and writes inside one step.  *)
(***************************************************************************)
EXTENDS Integers, Sequences, FiniteSets, TLC

(***************************************************************************)
(*                         Characters and texts                           *)
(***************************************************************************)

LatinLower == {"a","b","c","d","e","f","g","h","i","j","k","l","m","n","o","p","q","r","s","t","u","v","w","x","y","z"}

LatinUpper == {"A","B","C","D","E","F","G","H","I","J","K","L","M","N","O","P","Q","R","S","T","U","V","W","X","Y","Z"}

CyrLower == {"cy_a","cy_b","cy_v","cy_g","cy_d","cy_e","cy_yo","cy_zh","cy_z","cy_i","cy_j","cy_k","cy_l","cy_m","cy_n","cy_o","cy_p","cy_r","cy_s","cy_t","cy_u","cy_f","cy_h","cy_c","cy_ch","cy_sh","cy_shch","cy_hard","cy_y","cy_soft","cy_eh","cy_yu","cy_ya"}

CyrUpper == {"CY_A","CY_B","CY_V","CY_G","CY_D","CY_E","CY_YO","CY_ZH","CY_Z","CY_I","CY_J","CY_K","CY_L","CY_M","CY_N","CY_O","CY_P","CY_R","CY_S","CY_T","CY_U","CY_F","CY_H","CY_C","CY_CH","CY_SH","CY_SHCH","CY_HARD","CY_Y","CY_SOFT","CY_EH","CY_YU","CY_YA"}

Digits == {"0","1","2","3","4","5","6","7","8","9"}

\* str.lower() on one character: the upper-case letters and their images.
LowerPairs ==
  {
    <<"A","a">>, <<"B","b">>, <<"C","c">>, <<"D","d">>, <<"E","e">>, <<"F","f">>,
    <<"G","g">>, <<"H","h">>, <<"I","i">>, <<"J","j">>, <<"K","k">>, <<"L","l">>,
    <<"M","m">>, <<"N","n">>, <<"O","o">>, <<"P","p">>, <<"Q","q">>, <<"R","r">>,
    <<"S","s">>, <<"T","t">>, <<"U","u">>, <<"V","v">>, <<"W","w">>, <<"X","x">>,
    <<"Y","y">>, <<"Z","z">>, <<"CY_A","cy_a">>, <<"CY_B","cy_b">>, <<"CY_V","cy_v">>, <<"CY_G","cy_g">>,
    <<"CY_D","cy_d">>, <<"CY_E","cy_e">>, <<"CY_YO","cy_yo">>, <<"CY_ZH","cy_zh">>, <<"CY_Z","cy_z">>, <<"CY_I","cy_i">>,
    <<"CY_J","cy_j">>, <<"CY_K","cy_k">>, <<"CY_L","cy_l">>, <<"CY_M","cy_m">>, <<"CY_N","cy_n">>, <<"CY_O","cy_o">>,
    <<"CY_P","cy_p">>, <<"CY_R","cy_r">>, <<"CY_S","cy_s">>, <<"CY_T","cy_t">>, <<"CY_U","cy_u">>, <<"CY_F","cy_f">>,
    <<"CY_H","cy_h">>, <<"CY_C","cy_c">>, <<"CY_CH","cy_ch">>, <<"CY_SH","cy_sh">>, <<"CY_SHCH","cy_shch">>, <<"CY_HARD","cy_hard">>,
    <<"CY_Y","cy_y">>, <<"CY_SOFT","cy_soft">>, <<"CY_EH","cy_eh">>, <<"CY_YU","cy_yu">>, <<"CY_YA","cy_ya">> }

LowerChar(c) ==
  IF \E p \in LowerPairs : p[1] = c THEN (CHOOSE p \in LowerPairs : p[1] = c)[2] ELSE c

\* str.lower()
Lower(s) == [i \in 1..Len(s) |-> LowerChar(s[i])]

\* the regular expression class \w (letters, digits, underscore) and \s
IsWordChar(c) == c \in LatinLower \cup LatinUpper \cup CyrLower \cup CyrUpper \cup Digits \cup {"_"}

IsSpace(c) == c = " "

\* F applied to the value of v
With(v, F(_)) == CHOOSE r \in {F(x) : x \in {v}} : TRUE

\* the least and the greatest element of a non-empty set of integers
MinOf(S) == CHOOSE m \in S : \A k \in S : m <= k

MaxOf(S) == CHOOSE m \in S : \A k \in S : k <= m

\* str.strip(): leading and trailing whitespace removed
Strip(s) ==
  LET keep == {i \in 1..Len(s) : ~IsSpace(s[i])}
  IN  IF keep = {} THEN <<>> ELSE SubSeq(s, MinOf(keep), MaxOf(keep))

\* str.replace(' ', '')
RemoveSpaces(s) == SelectSeq(s, LAMBDA c : c # " ")

\* `sub in s` for strings
Contains(s, sub) ==
  \E i \in 0..(Len(s) - Len(sub)) : SubSeq(s, i + 1, i + Len(sub)) = sub

\* str.split(): the maximal runs of non-whitespace, in order
Split(s) ==
  LET starts == {i \in 1..Len(s) : ~IsSpace(s[i]) /\ (i = 1 \/ IsSpace(s[i - 1]))}
      ends   == {i \in 1..Len(s) : ~IsSpace(s[i]) /\ (i = Len(s) \/ IsSpace(s[i + 1]))}
      nth(k) == CHOOSE i \in starts : Cardinality({j \in starts : j < i}) = k - 1
  IN  [k \in 1..Cardinality(starts) |->
        SubSeq(s, nth(k), MinOf({e \in ends : e >= nth(k)}))]

Range(f) == {f[i] : i \in DOMAIN f}

(***************************************************************************)
(*                 check_question_meaning (bot.py 79-116)                  *)
(***************************************************************************)

\* bot_keywords, bot.py line 83
bot_keywords ==
  { <<"cy_b","cy_o","cy_t">>,
    <<"t","e","l","e","g","r","a","m">>,
    <<"cy_t","cy_e","cy_l","cy_e","cy_g","cy_a">>,
    <<"cy_t","cy_e","cy_l","cy_e","cy_g","cy_r","cy_a","cy_m">>,
    <<"b","o","t">>,
    <<"@","g","r","o","u","p","a","n","o","n","y","m","o","u","s","b","o","t">> }

\* question_words, bot.py line 110
question_words ==
  { <<"cy_ch","cy_t","cy_o">>,
    <<"cy_k","cy_a","cy_k">>,
    <<"cy_p","cy_o","cy_ch","cy_e","cy_m","cy_u">>,
    <<"cy_g","cy_d","cy_e">>,
    <<"cy_k","cy_o","cy_g","cy_d","cy_a">>,
    <<"cy_k","cy_a","cy_k","cy_o","cy_j">>,
    <<"cy_k","cy_a","cy_k","cy_a","cy_ya">>,
    <<"cy_k","cy_a","cy_k","cy_o","cy_e">>,
    <<"cy_k","cy_t","cy_o">>,
    <<"cy_z","cy_a","cy_ch","cy_e","cy_m">>,
    <<"cy_s","cy_k","cy_o","cy_l","cy_soft","cy_k","cy_o">> }

\* re.match(r'^(.)\1{4,}$', s): one character, five or more times, nothing else
AllSameChar(s) == Len(s) >= 5 /\ \A i \in 1..Len(s) : s[i] = s[1]

\* re.match(r'^(\W)\1{4,}$', s): the same, the character not of class \w
AllSameSymbol(s) == AllSameChar(s) /\ ~IsWordChar(s[1])

\* first index of the maximal \w run that ends at e
RunStart(s, e) ==
  LET stops == {k \in 1..e : ~IsWordChar(s[k])}
  IN  IF stops = {} THEN 1 ELSE MaxOf(stops) + 1

\* last index of the maximal \w run that starts at b
RunEnd(s, b) ==
  LET stops == {k \in b..Len(s) : ~IsWordChar(s[k])}
  IN  IF stops = {} THEN Len(s) ELSE MinOf(stops) - 1

\* index of the first non-whitespace character at or after i (Len(s) + 1 if none)
SkipSpaces(s, i) ==
  LET stops == {k \in i..Len(s) : ~IsSpace(s[k])}
  IN  IF stops = {} THEN Len(s) + 1 ELSE MinOf(stops)

HasDigit(s, b, e) == \E i \in b..e : s[i] \in Digits

\* re.search(r'\b\w*\d+\w*\b\s+\b\w*\d+\w*\b', s): two whole words (maximal \w
\* runs), each holding a digit, with only whitespace between them
DigitWords(s) ==
  \E e \in 1..(Len(s) - 2) :
     /\ IsWordChar(s[e])
     /\ IsSpace(s[e + 1])
     /\ LET b2 == SkipSpaces(s, e + 1)
        IN  /\ b2 <= Len(s)
            /\ IsWordChar(s[b2])
            /\ HasDigit(s, RunStart(s, e), e)
            /\ HasDigit(s, b2, RunEnd(s, b2))

\* length of the leading \w run of s
WordPrefixLen(s) == IF Len(s) > 0 /\ IsWordChar(s[1]) THEN RunEnd(s, 1) ELSE 0

\* re.match(r'^\w{2,}(\w)\1{2,}', s): two or more \w, then one \w three times running
Nonsense(s) ==
  \E k \in 2..(WordPrefixLen(s) - 3) : s[k + 1] = s[k + 2] /\ s[k + 2] = s[k + 3]

\* the check with the test of bot.py 84 alone
check_question_meaning_keywords(question) ==
  IF \E keyword \in bot_keywords : Contains(Strip(Lower(question)), keyword)
    THEN <<FALSE, "bot_mention">>
    ELSE <<TRUE, "">>

\* check_question_meaning: <<is_valid, reason>>
check_question_meaning(question) ==
  With(Strip(Lower(question)), LAMBDA question_lower :
  With(Split(question_lower), LAMBDA words :
  LET has_question_word == (\E w \in question_words : Contains(question_lower, w))
                           \/ Contains(question_lower, <<"?">>)
      has_multiple_words == Len(words) >= 3
  IN  IF \E keyword \in bot_keywords : Contains(question_lower, keyword)
        THEN <<FALSE, "bot_mention">>
      ELSE IF Len(question_lower) < 10
        THEN <<FALSE, "too_short">>
      ELSE IF AllSameChar(RemoveSpaces(question_lower)) \/ AllSameSymbol(question_lower)
        THEN <<FALSE, "repeated_chars">>
      ELSE IF Len(words) > 1 /\ Cardinality(Range(words)) = 1
        THEN <<FALSE, "repeated_words">>
      ELSE IF DigitWords(question_lower)
        THEN <<FALSE, "digit_words">>
      ELSE IF Nonsense(RemoveSpaces(question_lower))
        THEN <<FALSE, "nonsense">>
      ELSE IF ~(has_question_word /\ has_multiple_words)
        THEN <<FALSE, "no_question">>
      ELSE <<TRUE, "">> ))

(***************************************************************************)
(*        difflib.SequenceMatcher(None, a, b).ratio() (bot.py 123)         *)
(***************************************************************************)

\* autojunk: when b has 200 elements or more, those occurring more than
\* 1 + len(b) // 100 times are "popular" and start no match
Popular(b) ==
  IF Len(b) >= 200
    THEN {c \in Range(b) : Cardinality({j \in 1..Len(b) : b[j] = c}) > (Len(b) \div 100) + 1}
    ELSE {}

\* length of the common run of non-popular elements starting at a[i+1], b[j+1]
\* (0-based i, j as in difflib), inside a[..ahi], b[..bhi]
RECURSIVE RunLen(_, _, _, _, _, _, _)
RunLen(a, b, pop, i, j, ahi, bhi) ==
  IF i < ahi /\ j < bhi /\ a[i + 1] = b[j + 1] /\ b[j + 1] \notin pop
    THEN 1 + RunLen(a, b, pop, i + 1, j + 1, ahi, bhi)
    ELSE 0

\* how far a block at (i, j) extends to the left with equal elements
RECURSIVE ExtendLeft(_, _, _, _, _, _)
ExtendLeft(a, b, i, j, alo, blo) ==
  IF i > alo /\ j > blo /\ a[i] = b[j] THEN 1 + ExtendLeft(a, b, i - 1, j - 1, alo, blo) ELSE 0

\* how far a block ending before (i, j) extends to the right with equal elements
RECURSIVE ExtendRight(_, _, _, _, _, _)
ExtendRight(a, b, i, j, ahi, bhi) ==
  IF i < ahi /\ j < bhi /\ a[i + 1] = b[j + 1] THEN 1 + ExtendRight(a, b, i + 1, j + 1, ahi, bhi) ELSE 0

\* SequenceMatcher.find_longest_match(alo, ahi, blo, bhi): <<i, j, k>>, the longest
\* block, of those the one earliest in a, of those the one earliest in b
find_longest_match(a, b, alo, ahi, blo, bhi) ==
  With(Popular(b), LAMBDA pop :
  With(MaxOf({0} \cup {RunLen(a, b, pop, i, j, ahi, bhi) :
                         i \in alo..(ahi - 1), j \in blo..(bhi - 1)}), LAMBDA best :
    IF best = 0 THEN <<alo, blo, 0>>
    ELSE
      With(MinOf({i \in alo..(ahi - 1) :
                    \E j \in blo..(bhi - 1) : RunLen(a, b, pop, i, j, ahi, bhi) = best}),
           LAMBDA bi :
      With(MinOf({j \in blo..(bhi - 1) : RunLen(a, b, pop, bi, j, ahi, bhi) = best}),
           LAMBDA bj :
      With(ExtendLeft(a, b, bi, bj, alo, blo), LAMBDA l :
        <<bi - l, bj - l, best + l + ExtendRight(a, b, bi + best, bj + best, ahi, bhi)>> )))))

\* sum of the sizes of get_matching_blocks() over a[alo..ahi), b[blo..bhi)
RECURSIVE MatchCount(_, _, _, _, _, _)
MatchCount(a, b, alo, ahi, blo, bhi) ==
  With(find_longest_match(a, b, alo, ahi, blo, bhi), LAMBDA m :
  With(m[1], LAMBDA i : With(m[2], LAMBDA j : With(m[3], LAMBDA k :
    IF k = 0 THEN 0
    ELSE k + (IF alo < i /\ blo < j THEN MatchCount(a, b, alo, i, blo, j) ELSE 0)
           + (IF i + k < ahi /\ j + k < bhi THEN MatchCount(a, b, i + k, ahi, j + k, bhi) ELSE 0)
  ))))

\* SIMILARITY_THRESHOLD = 0.6 as the fraction ThresholdNum / ThresholdDen
ThresholdNum == 6

ThresholdDen == 10

\* ratio() > SIMILARITY_THRESHOLD, ratio() being 2.0 * matches / (len(a) + len(b)),
\* and 1.0 when both are empty
RatioAboveThreshold(a, b) ==
  IF Len(a) + Len(b) = 0 THEN ThresholdNum < ThresholdDen
  ELSE 2 * MatchCount(a, b, 0, Len(a), 0, Len(b)) * ThresholdDen > ThresholdNum * (Len(a) + Len(b))


(***************************************************************************)
(*                       Constants and input sets                          *)
(***************************************************************************)

ADMIN_ID == 335236137

MAX_PENDING_QUESTIONS == 3

\* the one-question-a-minute window of ask, in seconds
Cooldown == 60

\* bounds of the model
MaxUpdates == 3

MaxTasks == 2

MaxTicks == 2

MaxRedeliveries == 2

TickSeconds == 30

\* the submitters (Telegram user ids) and their user names; user 2 has none
\* and is shown as the placeholder (bot.py 407)
Users == {1, 2}

Callers == {1, ADMIN_ID}

Username(u) == IF u = 1 THEN "alice" ELSE "Anonim"

Tasks == 1..MaxTasks

\* the texts submitted in the model: " ".join(context.args), so single spaces
Q1 == <<"w","h","o"," ","i","s"," ","i","t","?">>

Q1u == <<"W","H","O"," ","I","S"," ","I","T","?">>

Q1s == <<"w","h","o"," ","i","s"," ","i","t","?","?">>

Q2 == <<"c","a","n"," ","w","e"," ","g","o","?">>

Q3 == <<"w","h","y"," ","m","e"," ","n","o","w","?">>

Q4 == <<"h","o","w"," ","o","l","d"," ","r"," ","u","?">>

QSwap == <<"i","s"," ","i","t"," ","w","h","o","?">>

TEmpty == <<>>

\* three characters
TTiny == <<"h","i","?">>

TShort == <<"a","a","a","a","a">>

TRepeat == <<"a","a","a","a","a","a","a","a","a","a","a","a">>

TSpam == <<"s","p","a","m"," ","o","r"," ","n","o","?">>

\* 501 characters: Q1, a space and 490 times "x"
TLong == Q1 \o <<" ">> \o [i \in 1..490 |-> "x"]

\* the texts given to /ask, and the texts /edit puts in place of a question
AskTexts == {TEmpty, TTiny, TShort, TRepeat, Q1, Q1u, Q1s, Q2, Q3, Q4, QSwap, TSpam, TLong}

EditTexts == {Q4}

\* two texts that pass every check on the text alone and are not similar
PlainTexts == {Q1, Q4}

\* the texts a record of the file can hold
StoredTexts == {q \in AskTexts \cup EditTexts : Len(q) <= 500}

\* the content of BLACKLIST_FILE under the key "blacklist"
blacklist == { <<"S","p","a","m">> }

\* the free texts an administrator gives (answer, reasons, edited question)
Answers == {"ans"}

Reasons == {"why"}

(***************************************************************************)
(*                      The persisted collection                           *)
(***************************************************************************)

Corrupt == "corrupt"

\* dict.get(key, default)
Get(q, key, default) == IF key \in DOMAIN q THEN q[key] ELSE default

\* the record with the notification switched on from the start
NewRecordNotifying(question_id, user_id, username, question) ==
  [ id |-> question_id, user_id |-> user_id, username |-> username,
    question |-> question, status |-> "pending", notify |-> TRUE,
    cancelled |-> FALSE, cancel_reason |-> "", reject_reason |-> "" ]

\* the record ask appends (bot.py 519-529)
NewRecord(question_id, user_id, username, question) ==
  [ id |-> question_id, user_id |-> user_id, username |-> username,
    question |-> question, status |-> "pending", notify |-> FALSE,
    cancelled |-> FALSE, cancel_reason |-> "", reject_reason |-> "" ]

\* q[key] = value on a dict: the key is added when it is missing
SetKey(q, key, value) == (key :> value) @@ q

\* get_question_hash: md5 of the lower-cased text, taken to be collision free,
\* so the digest is identified with the text it is computed from
get_question_hash(question) == Lower(question)

\* check_blacklist: a banned word occurs in the text, case-insensitively
check_blacklist(question) ==
  \E word \in blacklist : Contains(Lower(question), Lower(word))

\* SequenceMatcher(None, a.lower().strip(), b.lower().strip()).ratio() above
\* SIMILARITY_THRESHOLD (bot.py 119-124)
SimilarityAbove(new_question, existing_question) ==
  With(Strip(Lower(new_question)), LAMBDA a :
  With(Strip(Lower(existing_question)), LAMBDA b : RatioAboveThreshold(a, b)))

\* the values of the text functions on the texts of the model, tabulated
\* (f @@ <<>> is f as an explicit table)
HashOf == [q \in AskTexts |-> get_question_hash(q)] @@ <<>>

MeaningOf == [q \in AskTexts \ {<<>>} |-> check_question_meaning(q)] @@ <<>>

BlacklistedOf == [q \in AskTexts |-> check_blacklist(q)] @@ <<>>

SimilarOf ==
  [p \in (AskTexts \ {<<>>}) \X StoredTexts |-> SimilarityAbove(p[1], p[2])] @@ <<>>

\* the active records compared by check_question_similarity, in list order
ActiveIndexes(questions) ==
  {i \in 1..Len(questions) : ~Get(questions[i], "cancelled", FALSE)}

\* the comparison without the test of bot.py 121: cancelled records compared too
check_question_similarity_all(new_question, existing_questions) ==
  LET hits == {i \in 1..Len(existing_questions) :
                 SimilarOf[<<new_question, existing_questions[i].question>>]}
  IN  IF hits = {} THEN <<FALSE, <<>>>>
      ELSE <<TRUE, existing_questions[MinOf(hits)].question>>

\* check_question_similarity: <<is_similar, matched question>>; the first
\* active record, in list order, whose ratio is above the threshold
check_question_similarity(new_question, existing_questions) ==
  LET hits == {i \in ActiveIndexes(existing_questions) :
                 SimilarOf[<<new_question, existing_questions[i].question>>]}
  IN  IF hits = {} THEN <<FALSE, <<>>>>
      ELSE <<TRUE, existing_questions[MinOf(hits)].question>>

\* the pending, non-cancelled records of a user (bot.py 130 and 491)
PendingOf(user_id, questions) ==
  {i \in 1..Len(questions) :
     /\ questions[i].user_id = user_id
     /\ questions[i].status = "pending"
     /\ ~Get(questions[i], "cancelled", FALSE)}

\* the limit of pending questions is passed, not just reached
QuotaExceeded(user_id, questions) ==
  Cardinality(PendingOf(user_id, questions)) > MAX_PENDING_QUESTIONS

\* the limit of pending questions is reached (bot.py 490-491)
QuotaReached(user_id, questions) ==
  Cardinality(PendingOf(user_id, questions)) >= MAX_PENDING_QUESTIONS

\* list_questions: the records /list shows (bot.py 304)
list_questions(questions) ==
  SelectSeq(questions, LAMBDA q : ~Get(q, "cancelled", FALSE))

get_remaining_attempts(user_id, questions) ==
  LET n == MAX_PENDING_QUESTIONS - Cardinality(PendingOf(user_id, questions))
  IN  IF n > 0 THEN n ELSE 0


(***************************************************************************)
(*                               State                                     *)
(***************************************************************************)

VARIABLES
  store,              \* QUESTIONS_FILE: the list of records, or Corrupt
  spam_protection,    \* user id -> last_ask_time (bot.py 57, 546)
  question_hashes,    \* user id -> list of hashes (bot.py 59, 543-545)
  processed_updates,  \* update ids already handled (bot.py 58)
  last_update_id,     \* the id of the last update Telegram delivered
  redelivered,        \* the ids of the updates Telegram delivered a second time
  now,                \* time.time(), in seconds
  tasks,              \* the handlers suspended between their read and their write
  reply               \* the last message a handler sent; for /ask with the text asked

vars == <<store, spam_protection, question_hashes, processed_updates, last_update_id,
         redelivered, now, tasks, reply>>

Idle == [op |-> "idle"]

NoReply == [op |-> "none", id |-> 0, kind |-> "none"]

\* collections found in the file when the process starts: the file outlives
\* the process, the in-memory maps do not
PairStore ==
  << NewRecord(1, 1, Username(1), Q1), NewRecord(2, 2, Username(2), Q2) >>

TripleStore ==
  << NewRecord(1, 1, Username(1), Q1), NewRecord(2, 1, Username(1), Q2),
     NewRecord(3, 1, Username(1), Q3) >>

\* PairStore after /delete 1 and an accepted /ask of user 1: the new record
\* takes the id len + 1 = 2 (bot.py 518), which the older record holds
ReusedIdStore ==
  << NewRecord(2, 2, Username(2), Q2), NewRecord(2, 1, Username(1), Q4) >>

InitStores == { <<>>, PairStore, ReusedIdStore }

Init ==
  /\ store \in InitStores
  /\ spam_protection = <<>>
  /\ question_hashes = <<>>
  /\ processed_updates = {}
  /\ last_update_id = 0
  /\ redelivered = <<>>
  /\ now = 0
  /\ tasks = [t \in Tasks |-> Idle]
  /\ reply = NoReply

\* Telegram numbers the updates upwards; every command and every button
\* press is one update, handled or not
FreshUpdate == last_update_id + 1

Delivered ==
  /\ last_update_id < MaxUpdates
  /\ last_update_id' = FreshUpdate
  /\ UNCHANGED redelivered

\* an update is delivered once more: Telegram repeats an update it was not
\* told to drop, with the id and the contents it had
Redelivered(update_id) ==
  /\ Len(redelivered) < MaxRedeliveries
  /\ update_id \in 1..last_update_id
  /\ redelivered' = Append(redelivered, update_id)
  /\ UNCHANGED last_update_id

\* the filter that lets every update through
AlreadyProcessedNever(update_id) == FALSE

\* the update filter of the command handlers (bot.py 399-402, 577-580)
AlreadyProcessed(update_id) == update_id \in processed_updates

\* the outcomes of open(QUESTIONS_FILE, "w") followed by json.dump: written;
\* open raised (file untouched); dump raised after open truncated the file
WriteOutcomes == {"ok", "open_failed", "dump_failed"}

AfterWrite(outcome, data) ==
  IF outcome = "ok" THEN data
  ELSE IF outcome = "open_failed" THEN store
  ELSE Corrupt

(***************************************************************************)
(*                        ask (bot.py 390-566)                             *)
(***************************************************************************)

\* the rate limit with the comparison turned round
RateLimitedInverted(user_id, current_time) ==
  /\ user_id \in DOMAIN spam_protection
  /\ current_time - spam_protection[user_id] > Cooldown

\* the rate limit of ask (bot.py 447)
RateLimited(user_id, current_time) ==
  /\ user_id \in DOMAIN spam_protection
  /\ current_time - spam_protection[user_id] < Cooldown

\* the length bounds with the upper one left out
LengthBelowMinimum(question) == Len(question) < 5

\* the length bounds of ask (bot.py 500)
LengthOutOfBounds(question) == Len(question) < 5 \/ Len(question) > 500

\* the lookup in the hashes of every submitter
KnownHashOfAnyone(user_id, question) ==
  \E u \in DOMAIN question_hashes : HashOf[question] \in Range(question_hashes[u])

\* the exact-duplicate check: the hash is among the hashes of this submitter
\* (bot.py 472-473)
KnownHash(user_id, question) ==
  HashOf[question] \in Range(Get(question_hashes, user_id, <<>>))

\* the checks with the near-duplicate check before the exact-duplicate check
AskResultSimilarFirst(user_id, question, current_time) ==
  LET readable == store # Corrupt
      meaning  == MeaningOf[question]
      similar  == check_question_similarity(question, store)
      Failed(kind, n, detail) ==
        [kind |-> IF readable THEN kind ELSE "read_error", checks |-> n, detail |-> detail]
  IN  IF question = <<>> THEN Failed("usage", 1, "")
      ELSE IF ~meaning[1] THEN Failed("meaning", 2, meaning[2])
      ELSE IF RateLimited(user_id, current_time) THEN Failed("rate_limit", 3, "")
      ELSE IF ~readable THEN Failed("read_error", 3, "")
      ELSE IF similar[1] THEN Failed("similar", 4, similar[2])
      ELSE IF KnownHash(user_id, question)
        THEN Failed("duplicate", 5, "")
      ELSE IF QuotaReached(user_id, store) THEN Failed("quota", 6, "")
      ELSE IF LengthOutOfBounds(question) THEN Failed("length", 7, "")
      ELSE IF BlacklistedOf[question] THEN Failed("blacklist", 8, "")
      ELSE [kind |-> "accepted", checks |-> 8, detail |-> ""]

\* the outcome of the admission checks of ask, in the order of the code, with
\* the number of checks evaluated; `detail` is the reason of the plausibility
\* check or the question the near-duplicate check shows
AskResult(user_id, question, current_time) ==
  LET readable == store # Corrupt
      meaning  == MeaningOf[question]
      similar  == check_question_similarity(question, store)
      Failed(kind, n, detail) ==
        [kind |-> IF readable THEN kind ELSE "read_error", checks |-> n, detail |-> detail]
  IN  IF question = <<>> THEN Failed("usage", 1, "")
      ELSE IF ~meaning[1] THEN Failed("meaning", 2, meaning[2])
      ELSE IF RateLimited(user_id, current_time) THEN Failed("rate_limit", 3, "")
      ELSE IF ~readable THEN Failed("read_error", 3, "")
      ELSE IF KnownHash(user_id, question)
        THEN Failed("duplicate", 4, "")
      ELSE IF similar[1] THEN Failed("similar", 5, similar[2])
      ELSE IF QuotaReached(user_id, store) THEN Failed("quota", 6, "")
      ELSE IF LengthOutOfBounds(question) THEN Failed("length", 7, "")
      ELSE IF BlacklistedOf[question] THEN Failed("blacklist", 8, "")
      ELSE [kind |-> "accepted", checks |-> 8, detail |-> ""]

\* the maps with the hash and the time recorded whatever the write did
RememberBeforeWrite(outcome, user_id, question, current_time) ==
  << (user_id :> Append(Get(question_hashes, user_id, <<>>), HashOf[question]))
       @@ question_hashes,
     (user_id :> current_time) @@ spam_protection >>

\* <<question_hashes, spam_protection>> after the write of ask: the hash and
\* the time are recorded once the write and its read-back went through (bot.py
\* 543-546); the except branch returns before (538-541)
Remember(outcome, user_id, question, current_time) ==
  IF outcome = "ok"
    THEN << (user_id :> Append(Get(question_hashes, user_id, <<>>), HashOf[question]))
              @@ question_hashes,
            (user_id :> current_time) @@ spam_protection >>
    ELSE << question_hashes, spam_protection >>

\* the maps with the time of a refused attempt recorded
AfterRefusalStamped(user_id, current_time) ==
  << question_hashes, (user_id :> current_time) @@ spam_protection >>

\* <<question_hashes, spam_protection>> after a refused attempt: every
\* refusal returns without an assignment to either (bot.py 411-516)
AfterRefusal(user_id, current_time) == << question_hashes, spam_protection >>

\* the handler of /ask, given the update with this id (bot.py 389-566)
ask_update(update_id, chat_type, user_id, question, outcome) ==
  IF chat_type # "private"
    THEN /\ outcome = "ok"
         /\ reply' = [op |-> "ask", id |-> user_id, kind |-> "private_only"]
         /\ UNCHANGED <<store, spam_protection, question_hashes, processed_updates, now, tasks>>
  ELSE IF AlreadyProcessed(update_id)
    THEN /\ outcome = "ok"
         /\ UNCHANGED <<store, spam_protection, question_hashes, processed_updates, now, tasks,
                        reply>>
    ELSE
      LET r == AskResult(user_id, question, now)
          question_id == Len(store) + 1
          data == Append(store, NewRecord(question_id, user_id, Username(user_id), question))
      IN  /\ processed_updates' = processed_updates \cup {update_id}
          /\ UNCHANGED <<now, tasks>>
          /\ IF r.kind # "accepted"
               THEN /\ outcome = "ok"
                    /\ reply' = [op |-> "ask", id |-> user_id, kind |-> r.kind,
                                 question |-> question, checks |-> r.checks,
                                 detail |-> r.detail]
                    /\ question_hashes' = AfterRefusal(user_id, now)[1]
                    /\ spam_protection' = AfterRefusal(user_id, now)[2]
                    /\ UNCHANGED store
               ELSE /\ store' = AfterWrite(outcome, data)
                    /\ question_hashes' = Remember(outcome, user_id, question, now)[1]
                    /\ spam_protection' = Remember(outcome, user_id, question, now)[2]
                    /\ reply' = [op |-> "ask", id |-> user_id,
                                 kind |-> IF outcome = "ok" THEN "accepted" ELSE "write_error",
                                 question |-> question, checks |-> r.checks, detail |-> ""]

ask(chat_type, user_id, question, outcome) ==
  /\ Delivered
  /\ ask_update(FreshUpdate, chat_type, user_id, question, outcome)

\* the clock advances
Tick ==
  /\ now + TickSeconds <= MaxTicks * TickSeconds
  /\ now' = now + TickSeconds
  /\ UNCHANGED <<store, spam_protection, question_hashes, processed_updates, last_update_id,
                 redelivered, tasks, reply>>


(***************************************************************************)
(*       approve, reject, cancel and the batch commands (568-1048)         *)
(***************************************************************************)

\* the mutations of the three transitions (605-607, 800-801, 992-994)
ApproveRecord(q, answer) ==
  SetKey(SetKey(SetKey(q, "status", "approved"), "answer", answer), "published", TRUE)

\* the same without line 801
RejectRecordNoReason(q, reject_reason) == SetKey(q, "status", "rejected")

RejectRecord(q, reject_reason) ==
  SetKey(SetKey(q, "status", "rejected"), "reject_reason", reject_reason)

\* the same without line 992
CancelRecordFlagOnly(q, cancel_reason) ==
  SetKey(SetKey(q, "cancelled", TRUE), "cancel_reason", cancel_reason)

CancelRecord(q, cancel_reason) ==
  SetKey(SetKey(SetKey(q, "status", "cancelled"), "cancelled", TRUE),
         "cancel_reason", cancel_reason)

\* the conditions of the `for q in data["questions"]` loops
IsPendingMatch(q, question_id) ==
  q.id = question_id /\ q.status = "pending" /\ ~Get(q, "cancelled", FALSE)

IsActiveMatch(q, question_id) ==
  q.id = question_id /\ ~Get(q, "cancelled", FALSE)

\* the loop that goes on to the last match
LastPending(questions, question_id) ==
  LET hits == {i \in 1..Len(questions) : IsPendingMatch(questions[i], question_id)}
  IN  IF hits = {} THEN 0 ELSE MaxOf(hits)

\* index of the first record of the list the loop stops at, 0 for the else branch
FirstPending(questions, question_id) ==
  LET hits == {i \in 1..Len(questions) : IsPendingMatch(questions[i], question_id)}
  IN  IF hits = {} THEN 0 ELSE MinOf(hits)

FirstActive(questions, question_id) ==
  LET hits == {i \in 1..Len(questions) : IsActiveMatch(questions[i], question_id)}
  IN  IF hits = {} THEN 0 ELSE MinOf(hits)

\* the gate left open
IsAdminAnyone(from_user) == TRUE

\* the gate of the administrator's commands (bot.py 573, 286, 1055, 1119, 1149)
IsAdmin(from_user) == from_user = ADMIN_ID

\* the notification sent whatever the flag
ShouldNotifyAlways(q) == TRUE

\* the transition messages the submitter when the record asks for it (bot.py 619)
ShouldNotify(q) == q.notify

\* the slot a newly started handler takes
HasFreeTask == \E t \in Tasks : tasks[t] = Idle

FreeTask == MinOf({t \in Tasks : tasks[t] = Idle})

Replied(op, id, kind) == [op |-> op, id |-> id, kind |-> kind]

\* update.message.reply_text of a command: the answer goes to the chat of the
\* user the command came from
RepliedTo(from_user, op, id, kind) ==
  [op |-> op, id |-> id, kind |-> kind, from |-> from_user]

\* the common shape of approve, reject and cancel: the admin gate, the update
\* filter, the read, the loop with its mutation; a handler that found its record
\* is left suspended in the reply to the administrator
ModerateUpdate(update_id, op, from_user, question_id, text, idx, mutated) ==
  IF ~IsAdmin(from_user)
    THEN /\ reply' = RepliedTo(from_user, op, 0, "not_admin")
         /\ UNCHANGED <<store, spam_protection, question_hashes, processed_updates, now, tasks>>
  ELSE IF AlreadyProcessed(update_id)
    THEN UNCHANGED <<store, spam_protection, question_hashes, processed_updates, now, tasks,
                     reply>>
    ELSE /\ HasFreeTask
         /\ processed_updates' = processed_updates \cup {update_id}
         /\ UNCHANGED <<store, spam_protection, question_hashes, now>>
         /\ IF store = Corrupt
              THEN /\ reply' = RepliedTo(from_user, op, question_id, "read_error")
                   /\ UNCHANGED tasks
            ELSE IF idx = 0
              THEN /\ reply' = RepliedTo(from_user, op, question_id, "not_found")
                   /\ UNCHANGED tasks
            ELSE /\ tasks' = [tasks EXCEPT ![FreeTask] =
                                [op |-> op, from |-> from_user, pc |-> "reply", id |-> question_id,
                                 text |-> text,
                                 seen |-> store, data |-> mutated, idx |-> idx,
                                 ids |-> <<>>, processed |-> <<question_id>>, failed |-> <<>>]]
                 /\ UNCHANGED reply

Moderate(op, from_user, question_id, text, idx, mutated) ==
  /\ Delivered
  /\ ModerateUpdate(FreshUpdate, op, from_user, question_id, text, idx, mutated)

approve(from_user, question_id, answer) ==
  LET idx == IF store = Corrupt THEN 0 ELSE FirstPending(store, question_id)
  IN  Moderate("approve", from_user, question_id, answer, idx,
               IF idx = 0 THEN store ELSE [store EXCEPT ![idx] = ApproveRecord(@, answer)])

reject(from_user, question_id, reject_reason) ==
  LET idx == IF store = Corrupt THEN 0 ELSE FirstPending(store, question_id)
  IN  Moderate("reject", from_user, question_id, reject_reason, idx,
               IF idx = 0 THEN store ELSE [store EXCEPT ![idx] = RejectRecord(@, reject_reason)])

cancel(from_user, question_id, cancel_reason) ==
  LET idx == IF store = Corrupt THEN 0 ELSE FirstActive(store, question_id)
  IN  Moderate("cancel", from_user, question_id, cancel_reason, idx,
               IF idx = 0 THEN store ELSE [store EXCEPT ![idx] = CancelRecord(@, cancel_reason)])

\* the loop of approve_all and reject_all from the id list `ids` on, up to the
\* first record whose submitter is to be notified (idx, the loop suspends in the
\* send) or to the end of the list (idx = 0)
RECURSIVE BatchRun(_, _, _, _, _, _)
BatchRun(op, text, data, ids, processed, failed) ==
  IF ids = <<>>
    THEN [data |-> data, ids |-> <<>>, processed |-> processed, failed |-> failed, idx |-> 0]
    ELSE LET question_id == Head(ids)
             i == FirstPending(data, question_id)
             d2 == [data EXCEPT ![i] = IF op = "approve_all" THEN ApproveRecord(@, text)
                                       ELSE RejectRecord(@, text)]
         IN  IF i = 0
               THEN BatchRun(op, text, data, Tail(ids), processed, Append(failed, question_id))
             ELSE IF ShouldNotify(d2[i])
               THEN [data |-> d2, ids |-> Tail(ids),
                     processed |-> Append(processed, question_id), failed |-> failed, idx |-> i]
             ELSE BatchRun(op, text, d2, Tail(ids), Append(processed, question_id), failed)

\* the end of a batch command: nothing processed, no write; else the write and
\* the summary to the administrator
BatchEnd(t, op, from_user, run, outcome) ==
  /\ tasks' = [tasks EXCEPT ![t] = Idle]
  /\ UNCHANGED <<spam_protection, question_hashes, now>>
  /\ IF run.processed = <<>>
       THEN /\ outcome = "ok"
            /\ reply' = [op |-> op, id |-> 0, kind |-> "not_found", from |-> from_user,
                         processed |-> run.processed, failed |-> run.failed]
            /\ UNCHANGED store
       ELSE /\ store' = AfterWrite(outcome, run.data)
            /\ reply' = [op |-> op, id |-> 0, from |-> from_user,
                         kind |-> IF outcome = "ok" THEN "done" ELSE "write_error",
                         processed |-> run.processed, failed |-> run.failed]

BatchSuspend(t, op, from_user, text, seen, run) ==
  /\ tasks' = [tasks EXCEPT ![t] =
                 [op |-> op, from |-> from_user, pc |-> "notify", id |-> run.data[run.idx].id,
                  text |-> text,
                  seen |-> seen, data |-> run.data, idx |-> run.idx,
                  ids |-> run.ids, processed |-> run.processed, failed |-> run.failed]]
  /\ UNCHANGED <<store, spam_protection, question_hashes, now, reply>>

Batch(op, from_user, question_ids, text, outcome) ==
  /\ Delivered
  /\ IF ~IsAdmin(from_user)
    THEN /\ outcome = "ok"
         /\ reply' = RepliedTo(from_user, op, 0, "not_admin")
         /\ UNCHANGED <<store, spam_protection, question_hashes, processed_updates, now, tasks>>
    ELSE /\ HasFreeTask
         /\ processed_updates' = processed_updates \cup {FreshUpdate}
         /\ IF store = Corrupt
              THEN /\ outcome = "ok"
                   /\ reply' = RepliedTo(from_user, op, 0, "read_error")
                   /\ UNCHANGED <<store, spam_protection, question_hashes, now, tasks>>
              ELSE LET run == BatchRun(op, text, store, question_ids, <<>>, <<>>)
                   IN  IF run.idx = 0
                         THEN BatchEnd(FreeTask, op, from_user, run, outcome)
                         ELSE outcome = "ok" /\ BatchSuspend(FreeTask, op, from_user, text, store, run)

approve_all(from_user, question_ids, answer, outcome) ==
  Batch("approve_all", from_user, question_ids, answer, outcome)

reject_all(from_user, question_ids, reject_reason, outcome) ==
  Batch("reject_all", from_user, question_ids, reject_reason, outcome)

\* what a handler does once its notification (or none) is behind it: the single
\* commands write the file; a batch command goes on with its loop
Proceed(t, outcome) ==
  LET task == tasks[t]
  IN  IF task.op \in {"approve_all", "reject_all"}
        THEN /\ UNCHANGED processed_updates
             /\ LET run == BatchRun(task.op, task.text, task.data, task.ids,
                                    task.processed, task.failed)
                IN  IF run.idx = 0
                      THEN BatchEnd(t, task.op, task.from, run, outcome)
                      ELSE outcome = "ok" /\ BatchSuspend(t, task.op, task.from, task.text, task.seen, run)
        ELSE /\ store' = AfterWrite(outcome, task.data)
             /\ tasks' = [tasks EXCEPT ![t] = Idle]
             /\ reply' = RepliedTo(task.from, task.op, task.id,
                                 IF outcome = "ok" THEN "notified" ELSE "write_error")
             /\ UNCHANGED <<spam_protection, question_hashes, processed_updates, now>>

\* `await update.message.reply_text(...)` of approve, reject, cancel returns
AdminReplied(t, outcome) ==
  /\ UNCHANGED <<last_update_id, redelivered>>
  /\ tasks[t] # Idle
  /\ tasks[t].pc = "reply"
  /\ LET task == tasks[t]
         kind == IF task.op = "approve" THEN "approved"
                 ELSE IF task.op = "reject" THEN "rejected" ELSE "cancelled"
     IN  IF ShouldNotify(task.data[task.idx])
           THEN /\ outcome = "ok"
                /\ tasks' = [tasks EXCEPT ![t].pc = "notify"]
                /\ reply' = RepliedTo(task.from, task.op, task.id, kind)
                /\ UNCHANGED <<store, spam_protection, question_hashes, processed_updates, now>>
           ELSE /\ store' = AfterWrite(outcome, task.data)
                /\ tasks' = [tasks EXCEPT ![t] = Idle]
                /\ reply' = IF outcome = "ok" THEN RepliedTo(task.from, task.op, task.id, kind)
                            ELSE RepliedTo(task.from, task.op, task.id, "write_error")
                /\ UNCHANGED <<spam_protection, question_hashes, processed_updates, now>>

\* an awaited send raises and nothing catches it: the handler ends there
Raised(t, pc) ==
  /\ UNCHANGED <<last_update_id, redelivered>>
  /\ tasks[t] # Idle
  /\ tasks[t].pc = pc
  /\ tasks' = [tasks EXCEPT ![t] = Idle]
  /\ reply' = RepliedTo(tasks[t].from, tasks[t].op, tasks[t].id, "raised")
  /\ UNCHANGED <<store, spam_protection, question_hashes, processed_updates, now>>

AdminReplyRaised(t) == Raised(t, "reply")

\* the MarkdownV2 notification to the submitter is delivered
NotifySent(t, outcome) ==
  /\ UNCHANGED <<last_update_id, redelivered>>
  /\ tasks[t] # Idle
  /\ tasks[t].pc = "notify"
  /\ Proceed(t, outcome)

\* it raises: the except branch sends the plain-text variant
NotifyRaised(t) ==
  /\ UNCHANGED <<last_update_id, redelivered>>
  /\ tasks[t] # Idle
  /\ tasks[t].pc = "notify"
  /\ tasks' = [tasks EXCEPT ![t].pc = "fallback"]
  /\ UNCHANGED <<store, spam_protection, question_hashes, processed_updates, now, reply>>

FallbackSent(t, outcome) ==
  /\ UNCHANGED <<last_update_id, redelivered>>
  /\ tasks[t] # Idle
  /\ tasks[t].pc = "fallback"
  /\ Proceed(t, outcome)

FallbackRaised(t) == Raised(t, "fallback")


(***************************************************************************)
(*      delete, clear, edit, the opt-in button (bot.py 1050-1257)          *)
(***************************************************************************)

\* the part common to the administrator's commands that read and write the
\* file inside one step
AdminGate(op, from_user, question_id) ==
  /\ Delivered
  /\ IF ~IsAdmin(from_user)
    THEN /\ reply' = RepliedTo(from_user, op, 0, "not_admin")
         /\ UNCHANGED <<store, spam_protection, question_hashes, processed_updates, now, tasks>>
    ELSE /\ processed_updates' = processed_updates \cup {FreshUpdate}
         /\ UNCHANGED <<spam_protection, question_hashes, now, tasks>>

\* the list with the cancelled records kept
WithoutActiveId(questions, question_id) ==
  SelectSeq(questions, LAMBDA q : q.id # question_id \/ Get(q, "cancelled", FALSE))

\* the list without the records with the id (bot.py 1085)
WithoutId(questions, question_id) ==
  SelectSeq(questions, LAMBDA q : q.id # question_id)

delete(from_user, question_id, outcome) ==
  /\ AdminGate("delete", from_user, question_id)
  /\ IsAdmin(from_user) =>
       IF store = Corrupt
         THEN /\ outcome = "ok"
              /\ reply' = RepliedTo(from_user, "delete", question_id, "read_error")
              /\ UNCHANGED store
         ELSE LET kept == WithoutId(store, question_id)
              IN  IF Len(kept) = Len(store)
                    THEN /\ outcome = "ok"
                         /\ reply' = RepliedTo(from_user, "delete", question_id, "not_found")
                         /\ UNCHANGED store
                    ELSE /\ store' = AfterWrite(outcome, kept)
                         /\ reply' = RepliedTo(from_user, "delete", question_id,
                                             IF outcome = "ok" THEN "deleted" ELSE "write_error")
  /\ ~IsAdmin(from_user) => outcome = "ok"

\* clear with a read of the file before the write
clear_after_read(from_user, outcome) ==
  /\ AdminGate("clear", from_user, 0)
  /\ IsAdmin(from_user) =>
       IF store = Corrupt
         THEN /\ outcome = "ok"
              /\ reply' = RepliedTo(from_user, "clear", 0, "read_error")
              /\ UNCHANGED store
         ELSE /\ store' = AfterWrite(outcome, <<>>)
              /\ reply' = RepliedTo(from_user, "clear", 0, IF outcome = "ok" THEN "cleared" ELSE "write_error")
  /\ ~IsAdmin(from_user) => outcome = "ok"

clear(from_user, outcome) ==
  /\ AdminGate("clear", from_user, 0)
  /\ IsAdmin(from_user) =>
       /\ store' = AfterWrite(outcome, <<>>)
       /\ reply' = RepliedTo(from_user, "clear", 0, IF outcome = "ok" THEN "cleared" ELSE "write_error")
  /\ ~IsAdmin(from_user) => outcome = "ok"

\* the edit that makes the administrator the submitter
EditRecordTakesOver(q, new_question) ==
  SetKey(SetKey(q, "question", new_question), "user_id", ADMIN_ID)

\* the edit that puts the question back to pending
EditRecordReopens(q, new_question) ==
  SetKey(SetKey(q, "question", new_question), "status", "pending")

\* the mutation of edit (bot.py 1181-1182)
EditRecord(q, new_question) == SetKey(q, "question", new_question)

edit(from_user, question_id, new_question, outcome) ==
  /\ AdminGate("edit", from_user, question_id)
  /\ IsAdmin(from_user) =>
       IF store = Corrupt
         THEN /\ outcome = "ok"
              /\ reply' = RepliedTo(from_user, "edit", question_id, "read_error")
              /\ UNCHANGED store
         ELSE LET idx == FirstActive(store, question_id)
              IN  IF idx = 0
                    THEN /\ outcome = "ok"
                         /\ reply' = RepliedTo(from_user, "edit", question_id, "not_found")
                         /\ UNCHANGED store
                    ELSE /\ store' = AfterWrite(outcome,
                                       [store EXCEPT ![idx] = EditRecord(@, new_question)])
                         /\ reply' = RepliedTo(from_user, "edit", question_id,
                                             IF outcome = "ok" THEN "edited" ELSE "write_error")
  /\ ~IsAdmin(from_user) => outcome = "ok"

\* the condition without the test of the user
OptInMatchAnyUser(q, question_id, user_id) ==
  q.id = question_id /\ ~Get(q, "cancelled", FALSE)

\* the condition of the loop of the opt-in (bot.py 1232)
OptInMatch(q, question_id, user_id) ==
  q.id = question_id /\ q.user_id = user_id /\ ~Get(q, "cancelled", FALSE)

\* button_callback, callback data "notify_<id>": the submitter opts in
notify_button(user_id, question_id, outcome) ==
  /\ Delivered
  /\ UNCHANGED <<spam_protection, question_hashes, processed_updates, now, tasks>>
  /\ IF store = Corrupt
       THEN /\ outcome = "ok"
            /\ reply' = RepliedTo(user_id, "notify", question_id, "read_error")
            /\ UNCHANGED store
       ELSE LET hits == {i \in 1..Len(store) : OptInMatch(store[i], question_id, user_id)}
            IN  IF hits = {}
                  THEN /\ outcome = "ok"
                       /\ reply' = RepliedTo(user_id, "notify", question_id, "not_found")
                       /\ UNCHANGED store
                  ELSE /\ store' = AfterWrite(outcome,
                                     [store EXCEPT ![MinOf(hits)] = SetKey(@, "notify", TRUE)])
                       /\ reply' = RepliedTo(user_id, "notify", question_id,
                                           IF outcome = "ok" THEN "notify_on" ELSE "write_error")

(***************************************************************************)
(*            /list and /myquestions (bot.py 281-388)                      *)
(***************************************************************************)

\* the handler of /list: the administrator is shown the records that are not
\* cancelled
list_command(from_user) ==
  /\ Delivered
  /\ IF ~IsAdmin(from_user)
       THEN /\ reply' = RepliedTo(from_user, "list", 0, "not_admin")
            /\ UNCHANGED processed_updates
       ELSE /\ processed_updates' = processed_updates \cup {FreshUpdate}
            /\ reply' = IF store = Corrupt THEN RepliedTo(from_user, "list", 0, "read_error")
                        ELSE [op |-> "list", id |-> 0, from |-> from_user,
                              kind |-> IF list_questions(store) = <<>> THEN "empty" ELSE "listed",
                              questions |-> list_questions(store)]
  /\ UNCHANGED <<store, spam_protection, question_hashes, now, tasks>>

\* the filter with the cancelled records left in
user_questions_all(user_id, questions) ==
  SelectSeq(questions, LAMBDA q : q.user_id = user_id)

\* the records /myquestions shows (bot.py 354)
user_questions(user_id, questions) ==
  SelectSeq(questions, LAMBDA q : q.user_id = user_id /\ ~Get(q, "cancelled", FALSE))

my_questions(user_id) ==
  /\ Delivered
  /\ UNCHANGED <<store, spam_protection, question_hashes, now, tasks>>
  /\ processed_updates' = processed_updates \cup {FreshUpdate}
  /\ reply' = IF store = Corrupt THEN Replied("myquestions", user_id, "read_error")
              ELSE [op |-> "myquestions", id |-> user_id,
                    kind |-> IF user_questions(user_id, store) = <<>> THEN "empty" ELSE "listed",
                    questions |-> user_questions(user_id, store),
                    remaining_attempts |-> get_remaining_attempts(user_id, store)]

(***************************************************************************)
(*               update_questions (server.py 28-44)                        *)
(***************************************************************************)

\* get_questions (server.py 13-26): what the read route returns for a file
\* that parses, the approved records that are not cancelled, four keys of each
approved_questions(questions) ==
  LET shown == SelectSeq(questions,
                         LAMBDA q : q.status = "approved" /\ ~Get(q, "cancelled", FALSE))
  IN  [k \in 1..Len(shown) |->
         [id |-> shown[k].id, username |-> shown[k].username,
          question |-> shown[k].question, answer |-> shown[k].answer]]

\* WEBHOOK_SECRET (server.py 11)
WEBHOOK_SECRET == "secret"

\* the header the website sends: the scheme and the secret
BearerHeader == <<"Bearer", WEBHOOK_SECRET>>

\* Authorization headers of a request: the right one, a wrong secret, the
\* secret without the scheme, no header
Headers == { BearerHeader, <<"Bearer", "guess">>, <<WEBHOOK_SECRET>>, <<>> }

\* the bodies posted: two documents and a body without the key "questions"
ApiPayloads == { [questions |-> <<>>], [questions |-> PairStore], [items |-> <<>>] }

\* the check that lets every request through
AuthorizedAny(auth_header) == TRUE

\* the check of the secret (server.py 31-32)
Authorized(auth_header) == auth_header = BearerHeader

\* the response of the route, sent back to the client that presented
\* auth_header
Responded(auth_header, kind) ==
  [op |-> "update_questions", id |-> 0, kind |-> kind, auth |-> auth_header]

\* the route answers 401, 400, 200 or 500; `reply` holds the response
update_questions(auth_header, new_data, outcome) ==
  /\ UNCHANGED <<spam_protection, question_hashes, processed_updates, last_update_id,
                 redelivered, now, tasks>>
  /\ IF ~Authorized(auth_header)
       THEN /\ outcome = "ok"
            /\ reply' = Responded(auth_header, "unauthorized")
            /\ UNCHANGED store
     ELSE IF "questions" \notin DOMAIN new_data
       THEN /\ outcome = "ok"
            /\ reply' = Responded(auth_header, "bad_request")
            /\ UNCHANGED store
     ELSE /\ store' = AfterWrite(outcome, new_data.questions)
          /\ reply' = Responded(auth_header, IF outcome = "ok" THEN "updated" ELSE "write_error")


(***************************************************************************)
(*                          Specifications                                 *)
(***************************************************************************)

QuestionIds == 1..2

IdLists == { <<1, 2>>, <<2, 2>> }

Submit ==
  \E chat_type \in {"private", "group"}, user_id \in Users, question \in AskTexts,
     outcome \in WriteOutcomes :
       ask(chat_type, user_id, question, outcome)

SubmitPlain ==
  \E user_id \in Users, question \in PlainTexts, outcome \in WriteOutcomes :
     ask("private", user_id, question, outcome)

Transition ==
  \E from_user \in Callers, question_id \in QuestionIds :
     \/ \E answer \in Answers : approve(from_user, question_id, answer)
     \/ \E reason \in Reasons : reject(from_user, question_id, reason)
     \/ \E reason \in Reasons : cancel(from_user, question_id, reason)

BatchTransition ==
  \E from_user \in Callers, question_ids \in IdLists, outcome \in WriteOutcomes :
     \/ \E answer \in Answers : approve_all(from_user, question_ids, answer, outcome)
     \/ \E reason \in Reasons : reject_all(from_user, question_ids, reason, outcome)

Resume ==
  \E t \in Tasks :
     \/ \E outcome \in WriteOutcomes : AdminReplied(t, outcome)
     \/ AdminReplyRaised(t)
     \/ \E outcome \in WriteOutcomes : NotifySent(t, outcome)
     \/ NotifyRaised(t)
     \/ \E outcome \in WriteOutcomes : FallbackSent(t, outcome)
     \/ FallbackRaised(t)

Edit ==
  \E from_user \in Callers, question_id \in QuestionIds, new_question \in EditTexts,
     outcome \in WriteOutcomes :
       edit(from_user, question_id, new_question, outcome)

OptIn ==
  \E user_id \in Users, question_id \in QuestionIds, outcome \in WriteOutcomes :
     notify_button(user_id, question_id, outcome)

Purge ==
  \E from_user \in Callers, outcome \in WriteOutcomes :
     \/ \E question_id \in QuestionIds : delete(from_user, question_id, outcome)
     \/ clear(from_user, outcome)

ApiOverwrite ==
  \E new_data \in ApiPayloads : update_questions(BearerHeader, new_data, "ok")

ApiRequest ==
  \E auth_header \in Headers, new_data \in ApiPayloads, outcome \in WriteOutcomes :
     update_questions(auth_header, new_data, outcome)

\* An update delivered again is the update delivered before.  The model
\* keeps the ids of the past updates, not their contents: the update comes
\* from a sender the gate of the handler lets in when its id was recorded,
\* the id being recorded behind the gate, and from a sender the gate refuses
\* when it was not.
AskAgain ==
  \E update_id \in 1..MaxUpdates, chat_type \in {"private", "group"}, user_id \in Users,
     question \in PlainTexts, outcome \in WriteOutcomes :
       /\ Redelivered(update_id)
       /\ (chat_type = "private") = (update_id \in processed_updates)
       /\ ask_update(update_id, chat_type, user_id, question, outcome)

ApproveAgain ==
  \E update_id \in 1..MaxUpdates, from_user \in Callers, question_id \in QuestionIds,
     answer \in Answers :
       LET idx == IF store = Corrupt THEN 0 ELSE FirstPending(store, question_id)
       IN  /\ Redelivered(update_id)
           /\ IsAdmin(from_user) = (update_id \in processed_updates)
           /\ ModerateUpdate(update_id, "approve", from_user, question_id, answer, idx,
                             IF idx = 0 THEN store
                             ELSE [store EXCEPT ![idx] = ApproveRecord(@, answer)])

Views ==
  \/ \E from_user \in Callers : list_command(from_user)
  \/ \E user_id \in Users : my_questions(user_id)

Next ==
  \/ SubmitPlain
  \/ Tick
  \/ Transition
  \/ BatchTransition
  \/ Resume
  \/ Edit
  \/ OptIn
  \/ Purge
  \/ ApiOverwrite

Spec == Init /\ [][Next]_vars

\* the bot alone: no request reaches update_questions
NextBot ==
  \/ SubmitPlain
  \/ Tick
  \/ Transition
  \/ BatchTransition
  \/ Resume
  \/ Edit
  \/ OptIn
  \/ Purge

SpecBot == Init /\ [][NextBot]_vars

\* the bot without /delete and /clear
NextModeration ==
  \/ SubmitPlain
  \/ Tick
  \/ Transition
  \/ BatchTransition
  \/ Resume
  \/ Edit
  \/ OptIn

SpecModeration == Init /\ [][NextModeration]_vars

\* /ask alone, on every text of the model, from files in which user 1 is at or
\* one short of the limit of pending questions
TwoStore ==
  << NewRecord(1, 1, Username(1), Q1), NewRecord(2, 1, Username(1), Q2) >>

\* a file of user 2 after /cancel 1 why and /approve 2 ans
CancelledStore ==
  << CancelRecord(NewRecord(1, 2, Username(2), Q1), "why"),
     ApproveRecord(NewRecord(2, 2, Username(2), Q2), "ans") >>

AdmissionStores == { <<>>, TwoStore, TripleStore, CancelledStore }

InitAdmission ==
  /\ store \in AdmissionStores
  /\ spam_protection = <<>>
  /\ question_hashes = <<>>
  /\ processed_updates = {}
  /\ last_update_id = 0
  /\ redelivered = <<>>
  /\ now = 0
  /\ tasks = [t \in Tasks |-> Idle]
  /\ reply = NoReply

NextAdmission ==
  \/ Submit
  \/ Tick

SpecAdmission == InitAdmission /\ [][NextAdmission]_vars

\* the bot started on a file whose records are numbered 1, 2, ... in list order
NumberedStores == { <<>>, PairStore }

InitNumbered ==
  /\ store \in NumberedStores
  /\ spam_protection = <<>>
  /\ question_hashes = <<>>
  /\ processed_updates = {}
  /\ last_update_id = 0
  /\ redelivered = <<>>
  /\ now = 0
  /\ tasks = [t \in Tasks |-> Idle]
  /\ reply = NoReply

SpecNumbered == InitNumbered /\ [][NextBot]_vars

\* the bot with its two listing commands
NextViews ==
  \/ SubmitPlain
  \/ Transition
  \/ BatchTransition
  \/ Resume
  \/ Edit
  \/ OptIn
  \/ Purge
  \/ Views

\* it starts on an empty file, on files of two submitters, on one whose
\* submitter has used up the quota, on one with a cancelled record
ViewStores == InitStores \cup {TripleStore, CancelledStore}

InitViews ==
  /\ store \in ViewStores
  /\ spam_protection = <<>>
  /\ question_hashes = <<>>
  /\ processed_updates = {}
  /\ last_update_id = 0
  /\ redelivered = <<>>
  /\ now = 0
  /\ tasks = [t \in Tasks |-> Idle]
  /\ reply = NoReply

SpecViews == InitViews /\ [][NextViews]_vars

\* every handler of the bot, from the files of SpecViews: one of them has a
\* submitter at the limit of pending questions
SpecQuota == InitViews /\ [][NextBot]_vars

\* the bot and every request to the API
NextApi ==
  \/ SubmitPlain
  \/ Transition
  \/ Resume
  \/ OptIn
  \/ ApiRequest

SpecApi == Init /\ [][NextApi]_vars

\* /ask, the opt-in and the moderation commands, with updates that Telegram
\* delivers a second time
NextRedelivery ==
  \/ SubmitPlain
  \/ Transition
  \/ Resume
  \/ OptIn
  \/ AskAgain
  \/ ApproveAgain

SpecRedelivery == Init /\ [][NextRedelivery]_vars


(***************************************************************************)
(*                             Properties                                  *)
(***************************************************************************)

\* no handler is suspended
Quiescent == \A t \in Tasks : tasks[t] = Idle

\* this step, a handler of command op found its record and was suspended in slot t
TaskStarted(t, op) ==
  tasks[t] = Idle /\ tasks'[t] # Idle /\ tasks'[t].op = op

\* this step, the handler of /approve, /reject or /cancel in slot t wrote the file
TaskWrote(t, op) ==
  /\ tasks[t] # Idle
  /\ tasks[t].op = op
  /\ tasks'[t] = Idle
  /\ reply'.op = op
  /\ reply'.kind \in {"approved", "rejected", "cancelled", "notified"}

\* this step, command op answered with a message of the given kind
Answered(op, kind) ==
  /\ last_update_id' # last_update_id
  /\ tasks' = tasks
  /\ reply'.op = op
  /\ reply'.kind = kind

HasRecord(questions, question_id, status) ==
  \E i \in 1..Len(questions) :
     questions[i].id = question_id /\ questions[i].status = status

\* C1 (its last clause): once a record with the id is approved and no other
\* handler is in flight, /approve of that id finds no record to approve and
\* reports NotFound.
C1_SecondApproveNotFound ==
  [][ \A t \in Tasks :
        (Quiescent /\ store # Corrupt /\ TaskStarted(t, "approve"))
          => ~HasRecord(store, tasks'[t].id, "approved") ]_vars

\* C2: /reject finds a record only when the file holds one with that id that
\* is pending and not cancelled; its write leaves that record rejected with
\* the reason in reject_reason; when there is no such record it answers
\* NotFound and the file is as it was.
C2_RejectContract ==
  [][ /\ \A t \in Tasks :
           TaskStarted(t, "reject") =>
             /\ store # Corrupt
             /\ store' = store
             /\ \E i \in 1..Len(store) : IsPendingMatch(store[i], tasks'[t].id)
      /\ \A t \in Tasks :
           TaskWrote(t, "reject") =>
             /\ store' # Corrupt
             /\ tasks[t].idx <= Len(store')
             /\ store'[tasks[t].idx].id = tasks[t].id
             /\ store'[tasks[t].idx].status = "rejected"
             /\ store'[tasks[t].idx].reject_reason = tasks[t].text
      /\ Answered("reject", "not_found") =>
             /\ store' = store
             /\ ~\E i \in 1..Len(store) : IsPendingMatch(store[i], reply'.id) ]_vars

C2_Rejected ==
  /\ store # Corrupt
  /\ reply.op = "reject"
  /\ reply.kind = "rejected"
  /\ \E i \in 1..Len(store) :
        /\ store[i].id = reply.id
        /\ store[i].status = "rejected"
        /\ store[i].reject_reason = "why"
        /\ ~Get(store[i], "cancelled", FALSE)


\* C3: a record that /cancel has cancelled is in no later /list: it stays out
\* of list_questions in every later state of the file.
C3_CancelledStaysHidden ==
  [][ (store # Corrupt /\ store' # Corrupt) =>
        \A i \in 1..Len(store) :
           (Get(store[i], "cancelled", FALSE) /\ i <= Len(store'))
             => store'[i] \notin Range(list_questions(store')) ]_vars

\* C4: in every state of the file the bot produces, a record has
\* cancelled = true exactly when its status is cancelled.
C4_CancelledIffStatus ==
  store # Corrupt =>
    \A i \in 1..Len(store) :
       Get(store[i], "cancelled", FALSE) <=> store[i].status = "cancelled"

C4_AfterCancel ==
  /\ store # Corrupt
  /\ reply.op = "cancel"
  /\ reply.kind = "cancelled"
  /\ \E i \in 1..Len(store) :
        /\ store[i].id = reply.id
        /\ store[i].status = "cancelled"
        /\ Get(store[i], "cancelled", FALSE)
  /\ \E i \in 1..Len(store) : store[i].status = "approved"

\* C5: in every state of the file, a record carries an answer exactly when its
\* status is approved, also after an approved record is cancelled.
C5_AnswerIffApproved ==
  store # Corrupt =>
    \A i \in 1..Len(store) :
       ("answer" \in DOMAIN store[i]) <=> store[i].status = "approved"

\* the moves of the status of a record the state machine allows
AllowedMove(from, to) ==
  \/ from = to
  \/ from = "pending" /\ to \in {"approved", "rejected", "cancelled"}
  \/ from \in {"approved", "rejected"} /\ to = "cancelled"

\* C6: without /delete, /clear and the API overwrite, under every interleaving
\* of the handlers, the status of a record in the file only moves pending ->
\* approved, pending -> rejected, or not cancelled -> cancelled.
C6_StatusMonotone ==
  [][ (store # Corrupt /\ store' # Corrupt) =>
        \A i \in 1..Len(store) :
           i <= Len(store') => AllowedMove(store[i].status, store'[i].status) ]_vars

\* this step, the handler suspended in slot t wrote the file
Wrote(t) ==
  /\ tasks[t] # Idle
  /\ tasks'[t] = Idle
  /\ reply'.op = tasks[t].op
  /\ reply'.kind \in {"approved", "rejected", "cancelled", "notified", "done"}

\* C7: no handler writes back a collection computed from a snapshot that
\* another handler's write has superseded: at its write the file is still the
\* file the handler read.
C7_NoStaleWrite ==
  [][ \A t \in Tasks : Wrote(t) => store = tasks[t].seen ]_vars

\* C8: without /delete, /clear and the API overwrite, under every interleaving
\* of the handlers, no record leaves the file.
C8_NoRecordRemoved ==
  [][ (store # Corrupt /\ store' # Corrupt) => Len(store') >= Len(store) ]_vars


\* this step, /ask of user_id in a private chat was handled
Asked(user_id) ==
  /\ last_update_id' # last_update_id
  /\ tasks' = tasks
  /\ reply'.op = "ask"
  /\ reply'.id = user_id
  /\ reply'.kind # "private_only"

\* the eight checks of the admission pipeline, each by itself, in the order
\* the specification gives them
CheckNames ==
  <<"usage", "meaning", "rate_limit", "duplicate", "similar", "quota", "length", "blacklist">>

FailsCheck(k, user_id, question) ==
  CASE k = 1 -> question = <<>>
    [] k = 2 -> question = <<>> \/ ~MeaningOf[question][1]
    [] k = 3 -> /\ user_id \in DOMAIN spam_protection
                /\ now - spam_protection[user_id] < Cooldown
    [] k = 4 -> HashOf[question] \in Range(Get(question_hashes, user_id, <<>>))
    [] k = 5 -> question # <<>> /\ check_question_similarity(question, store)[1]
    [] k = 6 -> Cardinality(PendingOf(user_id, store)) >= MAX_PENDING_QUESTIONS
    [] k = 7 -> Len(question) < 5 \/ Len(question) > 500
    [] k = 8 -> BlacklistedOf[question]

AtQuota(user_id) ==
  /\ store # Corrupt
  /\ Cardinality(PendingOf(user_id, store)) = MAX_PENDING_QUESTIONS

\* C9 as stated: with exactly 3 pending, not cancelled records of the
\* submitter, a further /ask is answered with the quota failure whatever the
\* text, and no record is created.
C9_QuotaWhateverTheText ==
  [][ \A user_id \in Users :
        (AtQuota(user_id) /\ Asked(user_id))
          => (reply'.kind = "quota" /\ store' = store) ]_vars

\* C9 amended: with exactly 3 pending, not cancelled records of the submitter,
\* a further /ask creates no record and is answered with a validation failure;
\* the failure is the quota one exactly when the text passes the five checks
\* that come before the quota check, whatever its length and whether or not
\* it holds a banned word.
C9_QuotaAfterEarlierChecks ==
  [][ \A user_id \in Users :
        (AtQuota(user_id) /\ Asked(user_id))
          => /\ store' = store
             /\ question_hashes' = question_hashes
             /\ spam_protection' = spam_protection
             /\ reply'.kind \in {CheckNames[k] : k \in 1..6}
             /\ reply'.kind = "quota"
                  <=> \A k \in 1..5 : ~FailsCheck(k, user_id, reply'.question) ]_vars

C9_QuotaOnLongText ==
  /\ store # Corrupt
  /\ reply.op = "ask"
  /\ reply.kind = "quota"
  /\ reply.question = TLong
  /\ Cardinality(PendingOf(reply.id, store)) = MAX_PENDING_QUESTIONS

\* C10: the reason /ask gives for a refused text is that of the first check,
\* in the order non-empty, plausibility, rate limit, exact duplicate, near
\* duplicate, quota, length, denylist, that the submission fails; no later
\* check is evaluated; a text that fails none is accepted.
C10_FirstFailingCheck ==
  [][ \A user_id \in Users :
        (store # Corrupt /\ Asked(user_id))
          => LET failed == {k \in 1..8 : FailsCheck(k, user_id, reply'.question)}
             IN  IF failed = {}
                   THEN /\ reply'.kind \in {"accepted", "write_error"}
                        /\ reply'.checks = 8
                   ELSE /\ reply'.kind = CheckNames[MinOf(failed)]
                        /\ reply'.checks = MinOf(failed)
                        /\ store' = store ]_vars

C10_DuplicateBeforeSimilar ==
  /\ store # Corrupt
  /\ reply.op = "ask"
  /\ reply.kind = "duplicate"
  /\ check_question_similarity(reply.question, store)[1]
  /\ QuotaReached(reply.id, store)

\* the kinds of answer of /ask that refuse the text for one of the eight checks
ValidationFailures ==
  {"usage", "meaning", "rate_limit", "duplicate", "similar", "quota", "length", "blacklist"}

\* C11: /ask adds a record to the file only when the attempt passes all eight
\* checks; the file is then the old file with one record appended, and that
\* record has the submitter's id and text, status pending, notify = false,
\* cancelled = false and empty cancel_reason and reject_reason; an accepted
\* /ask lengthens the file by exactly one record.
C11_RecordOnlyWhenAllPass ==
  [][ \A user_id \in Users :
        (store # Corrupt /\ Asked(user_id)) =>
          /\ (store' # Corrupt /\ store' # store) =>
               /\ \A k \in 1..8 : ~FailsCheck(k, user_id, reply'.question)
               /\ Len(store') = Len(store) + 1
               /\ SubSeq(store', 1, Len(store)) = store
               /\ LET q == store'[Len(store')]
                  IN  /\ q.user_id = user_id
                      /\ q.question = reply'.question
                      /\ q.status = "pending"
                      /\ q.notify = FALSE
                      /\ q.cancelled = FALSE
                      /\ q.cancel_reason = ""
                      /\ q.reject_reason = ""
          /\ reply'.kind = "accepted" =>
               (store' # Corrupt /\ Len(store') = Len(store) + 1) ]_vars

C11_Accepted ==
  /\ store # Corrupt
  /\ reply.op = "ask"
  /\ reply.kind = "accepted"
  /\ Len(store) >= 3
  /\ store[Len(store)].user_id = reply.id
  /\ store[Len(store)].question = reply.question
  /\ store[Len(store)].status = "pending"

\* C12: a text shorter than 5 or longer than 500 characters is refused with a
\* validation failure and the file stays as it was, whatever the submitter's
\* rate limit, hashes and pending questions (the file being readable).
C12_LengthBounds ==
  [][ \A user_id \in Users :
        ( /\ store # Corrupt
          /\ Asked(user_id)
          /\ (Len(reply'.question) < 5 \/ Len(reply'.question) > 500) )
          => (reply'.kind \in ValidationFailures /\ store' = store) ]_vars

C12_LongTextRefused ==
  /\ store # Corrupt
  /\ reply.op = "ask"
  /\ reply.kind = "length"
  /\ Len(reply.question) > 500
  /\ Cardinality(PendingOf(reply.id, store)) < MAX_PENDING_QUESTIONS

\* C13: a text that is one character repeated 5 times or more is refused by
\* the plausibility check and no record is created.
C13_RepeatedCharRefused ==
  [][ \A user_id \in Users :
        ( /\ store # Corrupt
          /\ Asked(user_id)
          /\ Len(reply'.question) >= 5
          /\ \A i \in 1..Len(reply'.question) : reply'.question[i] = reply'.question[1] )
          => (reply'.kind = "meaning" /\ store' = store) ]_vars

C13_TwelveTimesA ==
  /\ store # Corrupt
  /\ reply.op = "ask"
  /\ reply.kind = "meaning"
  /\ reply.detail = "repeated_chars"
  /\ reply.question = TRepeat

\* this step, /ask of user_id was handled with a text whose hash the process
\* holds for that user: the same text, up to letter case, that an earlier /ask
\* of the user got accepted
AskedAgain(user_id) ==
  /\ store # Corrupt
  /\ Asked(user_id)
  /\ HashOf[reply'.question] \in Range(Get(question_hashes, user_id, <<>>))

\* C14 as stated: the second /ask of the same submitter with the same text is
\* answered with the exact-duplicate failure and writes nothing.
C14_SecondIsDuplicate ==
  [][ \A user_id \in Users :
        AskedAgain(user_id) => (reply'.kind = "duplicate" /\ store' = store) ]_vars

\* C14 amended: the second /ask of the same submitter with a text accepted
\* before writes nothing and records nothing; it is answered with the
\* rate-limit failure while less than 60 seconds have passed since the
\* submitter's last accepted question, and with the exact-duplicate failure
\* from then on.
C14_SecondRefused ==
  [][ \A user_id \in Users :
        AskedAgain(user_id) =>
          /\ store' = store
          /\ question_hashes' = question_hashes
          /\ spam_protection' = spam_protection
          /\ reply'.kind = IF now - spam_protection[user_id] < Cooldown
                             THEN "rate_limit" ELSE "duplicate" ]_vars

C14_DuplicateAfterCooldown ==
  /\ store # Corrupt
  /\ reply.op = "ask"
  /\ reply.kind = "duplicate"
  /\ HashOf[reply.question] \in Range(Get(question_hashes, reply.id, <<>>))
  /\ now - spam_protection[reply.id] >= Cooldown

\* C15: while less than 60 seconds have passed since a submitter's last
\* accepted question, every /ask of that submitter is refused and leaves the
\* file as it is; a refused /ask leaves the time of the last accepted question
\* as it is, an accepted one sets it to the time of the attempt, so two
\* records of one submitter are never created less than 60 seconds apart.
C15_CooldownHolds ==
  [][ \A user_id \in Users :
        Asked(user_id) =>
          /\ ( /\ user_id \in DOMAIN spam_protection
               /\ now - spam_protection[user_id] < Cooldown )
               => /\ reply'.kind \notin {"accepted", "write_error"}
                  /\ store' = store
          /\ reply'.kind # "accepted" => spam_protection' = spam_protection
          /\ reply'.kind = "accepted" =>
               /\ user_id \in DOMAIN spam_protection'
               /\ spam_protection'[user_id] = now
               /\ \A u \in DOMAIN spam_protection :
                     u # user_id => spam_protection'[u] = spam_protection[u] ]_vars

C15_RefusedInsideWindow ==
  /\ store # Corrupt
  /\ reply.op = "ask"
  /\ reply.kind = "rate_limit"
  /\ reply.id \in DOMAIN spam_protection
  /\ now - spam_protection[reply.id] < Cooldown
  /\ \E i \in 1..Len(store) : store[i].user_id = reply.id

C17_IdsDistinct ==
  store # Corrupt =>
    \A i \in 1..Len(store) :
       /\ store[i].id > 0
       /\ \A j \in 1..Len(store) : i # j => store[i].id # store[j].id

\* C18: a notification to the submitter that cannot be delivered, the
\* plain-text one included, does not keep /approve, /reject or /cancel from
\* writing the transition: a handler that leaves its notification, the write
\* itself not failing, leaves the file with its transition in it.
C18_NotifyFailureStillPersists ==
  [][ \A t \in Tasks :
        ( /\ tasks[t] # Idle
          /\ tasks[t].op \in {"approve", "reject", "cancel"}
          /\ tasks[t].pc \in {"notify", "fallback"}
          /\ tasks'[t] = Idle
          /\ reply'.kind # "write_error" )
          => store' = tasks[t].data ]_vars

\* C19: a write that fails leaves the file as it was before the attempt.
C19_FailedWriteRestores ==
  [][ ( /\ last_update_id' # last_update_id \/ tasks' # tasks
        /\ reply'.kind = "write_error" )
        => store = store' ]_vars

\* C20: when the write of /ask fails, the submitter's last_ask_time and hashes
\* are after the attempt what they were before it, so the same text sent again
\* at once meets neither the rate limit nor the exact-duplicate check.
C20_FailedWriteForgets ==
  [][ \A user_id \in Users :
        (Asked(user_id) /\ reply'.kind = "write_error") =>
          /\ question_hashes' = question_hashes
          /\ spam_protection' = spam_protection
          /\ ~( /\ user_id \in DOMAIN spam_protection'
                /\ now' - spam_protection'[user_id] < Cooldown )
          /\ HashOf[reply'.question] \notin Range(Get(question_hashes', user_id, <<>>)) ]_vars

C20_WriteFailed ==
  /\ reply.op = "ask"
  /\ reply.kind = "write_error"
  /\ reply.checks = 8
  /\ HashOf[reply.question] \notin Range(Get(question_hashes, reply.id, <<>>))
  /\ \E u \in Users \ {reply.id} : u \in DOMAIN spam_protection


(***************************************************************************)
(*                  Reads, the gate, the flags                             *)
(***************************************************************************)

\* a command of the bot is taken up in this step
Called == last_update_id' # last_update_id

\* and its handler runs to its end in the same step, `reply` being its answer
CalledAndDone == Called /\ tasks' = tasks

AdminOps == {"approve", "reject", "cancel", "edit", "delete", "clear", "list",
             "approve_all", "reject_all"}

\* the step takes up the command `op` sent by from_user: the handler answered
\* from_user at once, or is left suspended on from_user's behalf
CalledBy(from_user, op) ==
  /\ Called
  /\ IF tasks' # tasks
       THEN \E t \in Tasks : /\ tasks[t] = Idle
                             /\ tasks'[t] # Idle
                             /\ tasks'[t].op = op
                             /\ tasks'[t].from = from_user
       ELSE /\ reply'.op = op
            /\ "from" \in DOMAIN reply'
            /\ reply'.from = from_user

\* C22: approve, reject, cancel, edit, delete, clear, list, approve_all and
\* reject_all sent by anyone but the administrator change neither the file
\* nor spam_protection, question_hashes and processed_updates, start no
\* handler that could message a submitter, and are answered with the refusal.
C22_OnlyTheAdministrator ==
  [][ \A from_user \in Callers \ {ADMIN_ID}, op \in AdminOps :
        CalledBy(from_user, op) =>
          /\ (store = Corrupt) = (store' = Corrupt)
          /\ store = store'
          /\ UNCHANGED <<spam_protection, question_hashes, processed_updates, tasks>>
          /\ reply'.kind = "not_admin" ]_vars

C22_Refused ==
  /\ reply.kind = "not_admin"
  /\ reply.op = "approve_all"
  /\ reply.from = 1
  /\ store # Corrupt
  /\ \E i \in 1..Len(store) : store[i].status = "pending"
  /\ processed_updates # {}

\* the records in the file and in the snapshots of the handlers in flight
Held ==
  (IF store = Corrupt THEN {} ELSE Range(store))
    \cup UNION { Range(tasks[t].data) : t \in {u \in Tasks : tasks[u] # Idle} }

\* C23: a record with notify = true in the file after a step had the flag
\* before it (in the file or in the snapshot a handler writes back), or the
\* step is the opt-in of the record's own submitter on that record, not
\* cancelled; an opt-in that finds no such record (another user's, a cancelled
\* or a missing one) answers NotFound and leaves the file as it was.
C23_OptInOnly ==
  [][ /\ store' # Corrupt =>
           \A i \in 1..Len(store') :
              store'[i].notify =>
                \/ \E q \in Held : /\ q.id = store'[i].id
                                    /\ q.user_id = store'[i].user_id
                                    /\ q.notify
                \/ /\ CalledAndDone
                   /\ reply'.op = "notify"
                   /\ reply'.kind = "notify_on"
                   /\ reply'.id = store'[i].id
                   /\ reply'.from = store'[i].user_id
                   /\ store # Corrupt
                   /\ i \in 1..Len(store)
                   /\ ~Get(store[i], "cancelled", FALSE)
                   /\ store[i].user_id = store'[i].user_id
                   /\ store[i].id = store'[i].id
      /\ ( /\ CalledAndDone
           /\ reply'.op = "notify"
           /\ store # Corrupt
           /\ ~\E i \in 1..Len(store) : /\ store[i].id = reply'.id
                                         /\ store[i].user_id = reply'.from
                                         /\ ~Get(store[i], "cancelled", FALSE) )
         => /\ store' # Corrupt
            /\ store' = store
            /\ reply'.kind = "not_found" ]_vars

C23_OptedIn ==
  /\ reply.op = "notify"
  /\ reply.kind = "notify_on"
  /\ store # Corrupt
  /\ \E i \in 1..Len(store) : /\ store[i].id = reply.id
                               /\ store[i].user_id = reply.from
                               /\ store[i].notify
  /\ \E i \in 1..Len(store) : store[i].user_id # reply.from /\ ~store[i].notify

SingleOps == {"approve", "reject", "cancel"}

\* C24: approve, reject and cancel message the submitter exactly when the
\* record had notify = true in the file at the transition: the handler takes
\* the flag with the record it transitions, goes from its answer to the
\* administrator into the send to the submitter when the flag is true, and
\* straight to the write, sending the submitter nothing, when it is false.
C24_NotifiedIffOptedIn ==
  [][ \A t \in Tasks :
        /\ ( /\ tasks[t] = Idle
             /\ tasks'[t] # Idle
             /\ tasks'[t].op \in SingleOps )
           => /\ store # Corrupt
              /\ tasks'[t].pc = "reply"
              /\ tasks'[t].data[tasks'[t].idx].notify = store[tasks'[t].idx].notify
        /\ ( /\ tasks[t] # Idle
             /\ tasks[t].op \in SingleOps
             /\ tasks'[t] # tasks[t] )
           => IF tasks[t].pc = "reply"
                THEN IF reply'.kind = "raised"
                       THEN tasks'[t] = Idle
                     ELSE IF tasks[t].data[tasks[t].idx].notify
                       THEN tasks'[t] # Idle /\ tasks'[t].pc = "notify"
                     ELSE tasks'[t] = Idle
                ELSE /\ tasks[t].pc \in {"notify", "fallback"}
                     /\ tasks[t].data[tasks[t].idx].notify
                     /\ tasks'[t] # Idle => /\ tasks[t].pc = "notify"
                                            /\ tasks'[t].pc = "fallback" ]_vars

C24_OneNotifiedOneSkipped ==
  /\ reply.op \in SingleOps
  /\ reply.kind = "notified"
  /\ store # Corrupt
  /\ \E i, j \in 1..Len(store) :
        /\ store[i].status # "pending" /\ store[i].notify
        /\ store[j].status # "pending" /\ ~store[j].notify

\* the places of the file that a step changes
ChangedPlaces == {i \in 1..Len(store) : store'[i] # store[i]}

\* C25: every transition is written at once and by itself: no handler is
\* suspended holding a transition it has not written, and a write changes at
\* most one record of the file.
C25_OneTransitionOneWrite ==
  [][ /\ \A t \in Tasks : tasks'[t] # Idle => tasks'[t].data = tasks'[t].seen
      /\ ( /\ store # Corrupt
           /\ store' # Corrupt
           /\ Len(store') = Len(store) )
         => Cardinality(ChangedPlaces) <= 1 ]_vars


(***************************************************************************)
(*                  edit, delete, clear                                    *)
(***************************************************************************)

\* the administrator's command `op` is taken up in this step, on a file that
\* parses
AdminCalled(op) ==
  /\ CalledAndDone
  /\ reply'.op = op
  /\ reply'.kind # "not_admin"
  /\ store # Corrupt

\* C26: edit puts the new text into the first record with the id that is not
\* cancelled, whatever its status, and leaves every other field of it and
\* every other record as they were; when no record with the id is left
\* uncancelled it answers NotFound and the file is unchanged.
C26_EditOnlyTheText ==
  [][ AdminCalled("edit") =>
        LET hits == {i \in 1..Len(store) :
                       store[i].id = reply'.id /\ ~Get(store[i], "cancelled", FALSE)}
        IN  IF hits = {}
              THEN /\ reply'.kind = "not_found"
                   /\ store' # Corrupt
                   /\ store' = store
              ELSE /\ reply'.kind \in {"edited", "write_error"}
                   /\ reply'.kind = "write_error" => (store' = Corrupt \/ store' = store)
                   /\ reply'.kind = "edited" =>
                        /\ store' # Corrupt
                        /\ Len(store') = Len(store)
                        /\ \E new_question \in EditTexts :
                             \A i \in 1..Len(store) :
                                store'[i] = IF i = MinOf(hits)
                                              THEN [store[i] EXCEPT !.question = new_question]
                                              ELSE store[i] ]_vars

C26_EditedAfterApproval ==
  /\ reply.op = "edit"
  /\ reply.kind = "edited"
  /\ store # Corrupt
  /\ \E i \in 1..Len(store) : /\ store[i].id = reply.id
                               /\ store[i].status = "approved"
                               /\ store[i].question \in EditTexts
  /\ \E i \in 1..Len(store) : store[i].question \notin EditTexts

\* C27: delete takes the records with the id out of the file, pending or
\* not, cancelled or not, and leaves the others as they were and in their
\* order; when no record has the id it answers NotFound and writes nothing.
C27_DeleteOnlyTheId ==
  [][ AdminCalled("delete") =>
        LET hits == {i \in 1..Len(store) : store[i].id = reply'.id}
        IN  IF hits = {}
              THEN /\ reply'.kind = "not_found"
                   /\ store' # Corrupt
                   /\ store' = store
              ELSE /\ reply'.kind \in {"deleted", "write_error"}
                   /\ reply'.kind = "write_error" => (store' = Corrupt \/ store' = store)
                   /\ reply'.kind = "deleted" =>
                        /\ store' # Corrupt
                        /\ \A i \in 1..Len(store') : store'[i].id # reply'.id
                        /\ store' = SelectSeq(store, LAMBDA q : q \in Range(store'))
                        /\ Len(store') = Len(store) - Cardinality(hits) ]_vars

C27_DeletedOthersKept ==
  /\ reply.op = "delete"
  /\ reply.kind = "deleted"
  /\ store # Corrupt
  /\ store # <<>>
  /\ \A i \in 1..Len(store) : store[i].id # reply.id

\* C28: clear by the administrator writes the empty list whatever the file
\* held, a file that does not parse included: it never answers with the read
\* error, and unless the write itself fails the file is the empty list.
C28_ClearFromAnyFile ==
  [][ ( /\ CalledAndDone
        /\ reply'.op = "clear"
        /\ reply'.kind # "not_admin" )
      => /\ reply'.kind \in {"cleared", "write_error"}
         /\ reply'.kind = "cleared" => store' = <<>>
         /\ reply'.kind = "write_error" =>
               \/ store' = Corrupt
               \/ /\ store # Corrupt
                  /\ store' = store ]_vars

C28_Cleared ==
  /\ reply.op = "clear"
  /\ reply.kind = "cleared"
  /\ store = <<>>
  /\ processed_updates # {}


(***************************************************************************)
(*                  /myquestions, the API                                  *)
(***************************************************************************)

\* the places of the submitter's records that are not cancelled
OwnPlaces(user_id) ==
  {i \in 1..Len(store) : store[i].user_id = user_id /\ ~Get(store[i], "cancelled", FALSE)}

\* C29: /myquestions shows exactly the records of the submitter that are not
\* cancelled, in the order of the file, with 3 minus the number of the
\* pending ones among them as the attempts left, never under 0 nor over 3;
\* the file is left as it was.
C29_OwnUncancelledRecords ==
  [][ \A user_id \in Users :
        ( /\ CalledAndDone
          /\ reply'.op = "myquestions"
          /\ reply'.id = user_id
          /\ store # Corrupt )
        => LET own == OwnPlaces(user_id)
               pending == {i \in own : store[i].status = "pending"}
               shown == reply'.questions
           IN  /\ store' # Corrupt
               /\ store' = store
               /\ Len(shown) = Cardinality(own)
               /\ \A k \in 1..Len(shown) :
                     \E i \in own : /\ shown[k] = store[i]
                                    /\ Cardinality({j \in own : j < i}) = k - 1
               /\ reply'.remaining_attempts \in 0..3
               /\ reply'.remaining_attempts =
                     IF Cardinality(pending) >= 3 THEN 0 ELSE 3 - Cardinality(pending)
               /\ reply'.kind = IF own = {} THEN "empty" ELSE "listed" ]_vars

C29_QuotaUsedUp ==
  /\ reply.op = "myquestions"
  /\ reply.kind = "listed"
  /\ reply.remaining_attempts = 0
  /\ store # Corrupt
  /\ Len(reply.questions) = 3
  /\ Len(store) > 3

\* C30: a request to the overwrite route whose Authorization header is not
\* the configured secret is answered Unauthorized and leaves the file as it
\* was, whatever its body, a body the route would refuse as malformed
\* included.
C30_WrongSecretNoEffect ==
  [][ ( /\ UNCHANGED <<last_update_id, tasks>>
        /\ reply'.op = "update_questions"
        /\ reply'.auth # BearerHeader )
      => /\ reply'.kind = "unauthorized"
         /\ (store = Corrupt) = (store' = Corrupt)
         /\ store = store' ]_vars

C30_Unauthorized ==
  /\ reply.op = "update_questions"
  /\ reply.kind = "unauthorized"
  /\ reply.auth = <<WEBHOOK_SECRET>>
  /\ store # Corrupt
  /\ store # <<>>
  /\ last_update_id > 0


(***************************************************************************)
(*                  Across handlers                                        *)
(***************************************************************************)

\* the read route shows the record q of the file `questions`
Exposed(questions, q) ==
  \E k \in 1..Len(approved_questions(questions)) :
     /\ approved_questions(questions)[k].id = q.id
     /\ approved_questions(questions)[k].username = q.username
     /\ approved_questions(questions)[k].question = q.question

\* C31: the read route shows approved records that are not cancelled and no
\* others, and a record that the file holds as cancelled is shown by no later
\* state of the file, however the handlers interleave.
C31_CancelledNeverExposedAgain ==
  [][ (store # Corrupt /\ store' # Corrupt) =>
        \A i \in 1..Len(store) :
           Get(store[i], "cancelled", FALSE) => ~Exposed(store', store[i]) ]_vars

\* two lists with the same submitters in the same places
SameSubmitters(a, b) ==
  /\ Len(a) = Len(b)
  /\ \A i \in 1..Len(a) : /\ a[i].user_id = b[i].user_id
                           /\ a[i].username = b[i].username

WriterOps == {"approve", "reject", "cancel", "edit", "notify", "approve_all", "reject_all"}

\* C32: approve, reject, cancel, edit, the opt-in and the batch commands
\* leave user_id and username of every record alone: the list a handler
\* holds, and the list it writes, has in every place the submitter of the
\* list it read.
C32_SubmitterKept ==
  [][ /\ \A t \in Tasks :
           tasks'[t] # Idle => SameSubmitters(tasks'[t].data, tasks'[t].seen)
      /\ ( /\ store' # Corrupt
           /\ store' # store
           /\ reply'.op \in WriterOps )
         => IF Called
              THEN /\ store # Corrupt
                   /\ SameSubmitters(store', store)
              ELSE \E t \in Tasks : /\ tasks[t] # Idle
                                    /\ tasks'[t] = Idle
                                    /\ SameSubmitters(store', tasks[t].seen) ]_vars

C32_EditedKeepsSubmitter ==
  /\ reply.op = "edit"
  /\ reply.kind = "edited"
  /\ store # Corrupt
  /\ \E i \in 1..Len(store) : /\ store[i].id = reply.id
                               /\ store[i].question \in EditTexts
                               /\ store[i].user_id \in Users
                               /\ store[i].username = Username(store[i].user_id)
                               /\ store[i].notify

\* C33: in every state of the file the handlers of the bot produce, however
\* they interleave, no submitter has more than 3 records that are pending and
\* not cancelled.
C33_AtMostThreePending ==
  store # Corrupt =>
    \A user_id \in Users :
       Cardinality(PendingOf(user_id, store)) <= MAX_PENDING_QUESTIONS

C33_SlotReused ==
  /\ store # Corrupt
  /\ reply.op = "ask"
  /\ reply.kind = "accepted"
  /\ Len(store) = 4
  /\ Cardinality(PendingOf(reply.id, store)) = MAX_PENDING_QUESTIONS
  /\ \E t \in Tasks : tasks[t] # Idle

\* C34: when approve, reject or cancel has delivered its message to the
\* submitter, the file holds the record with the new status once the handler
\* is over.
C34_NotifiedMeansPersisted ==
  [][ \A t \in Tasks :
        ( /\ tasks[t] # Idle
          /\ tasks[t].op \in SingleOps
          /\ tasks[t].pc \in {"notify", "fallback"}
          /\ tasks'[t] = Idle
          /\ reply'.kind # "raised" )
        => /\ store' # Corrupt
           /\ tasks[t].idx <= Len(store')
           /\ store'[tasks[t].idx].status = tasks[t].data[tasks[t].idx].status ]_vars

\* C35: a record that the file holds with notify = true holds it with
\* notify = true in every later state of the file in which it still is,
\* however the opt-in interleaves with approve, reject and cancel.
C35_OptInStays ==
  [][ (store # Corrupt /\ store' # Corrupt) =>
        \A i \in 1..Len(store) :
           (store[i].notify /\ i <= Len(store')) => store'[i].notify ]_vars


(***************************************************************************)
(*                  The memory of the process                              *)
(***************************************************************************)

\* C36: an /ask refused for one of the eight reasons leaves the file, the
\* submitter's last_ask_time and the submitter's hashes as they were; the
\* two maps change only in an /ask that is accepted and written, which sets
\* the submitter's time to the time of the attempt and appends the hash of
\* the text to the submitter's hashes.
C36_RefusalLeavesNoTrace ==
  [][ \A user_id \in Users :
        Asked(user_id) =>
          /\ reply'.kind \in ValidationFailures =>
                /\ (store = Corrupt) = (store' = Corrupt)
                /\ store = store'
                /\ spam_protection' = spam_protection
                /\ question_hashes' = question_hashes
          /\ (spam_protection' # spam_protection \/ question_hashes' # question_hashes)
                => reply'.kind = "accepted"
          /\ reply'.kind = "accepted" =>
                /\ store # Corrupt
                /\ store' # Corrupt
                /\ Len(store') = Len(store) + 1
                /\ spam_protection' = (user_id :> now) @@ spam_protection
                /\ question_hashes' =
                     (user_id :> Append(Get(question_hashes, user_id, <<>>),
                                        HashOf[reply'.question])) @@ question_hashes ]_vars

C36_RefusedAfterAccepted ==
  /\ reply.op = "ask"
  /\ reply.kind = "similar"
  /\ reply.id \in DOMAIN spam_protection
  /\ now - spam_protection[reply.id] >= Cooldown
  /\ Len(Get(question_hashes, reply.id, <<>>)) = 1
  /\ HashOf[reply.question] \notin Range(question_hashes[reply.id])

\* the hashes of every submitter are kept, new ones come at the end
HashesGrow ==
  \A u \in DOMAIN question_hashes :
     /\ u \in DOMAIN question_hashes'
     /\ Len(question_hashes'[u]) >= Len(question_hashes[u])
     /\ SubSeq(question_hashes'[u], 1, Len(question_hashes[u])) = question_hashes[u]

\* the text of this /ask is not among the hashes of its submitter
AskedAfresh(user_id) ==
  /\ Asked(user_id)
  /\ HashOf[reply'.question] \notin Range(Get(question_hashes, user_id, <<>>))

\* C37 as stated: the hashes of a submitter only grow, whatever happens to
\* the file; a text of the submitter accepted before is refused as an exact
\* duplicate when the same submitter sends it again, and a text not among the
\* submitter's own hashes is never refused as an exact duplicate.
C37_ResubmissionIsDuplicate ==
  [][ /\ HashesGrow
      /\ \A user_id \in Users :
           /\ AskedAgain(user_id) => reply'.kind = "duplicate"
           /\ AskedAfresh(user_id) => reply'.kind # "duplicate" ]_vars

\* C37 amended: the same, the resubmission being refused with the rate-limit
\* failure while less than 60 seconds have passed since the submitter's last
\* accepted question and as an exact duplicate from then on, the file
\* unchanged either way.
C37_HashesOutliveRecords ==
  [][ /\ HashesGrow
      /\ \A user_id \in Users :
           /\ AskedAgain(user_id) =>
                /\ reply'.kind \in {"rate_limit", "duplicate"}
                /\ reply'.kind = "rate_limit" <=>
                      /\ user_id \in DOMAIN spam_protection
                      /\ now - spam_protection[user_id] < Cooldown
                /\ store' # Corrupt
                /\ store' = store
           /\ AskedAfresh(user_id) => reply'.kind # "duplicate" ]_vars

C37_DuplicateOfClearedRecord ==
  /\ reply.op = "ask"
  /\ reply.kind = "duplicate"
  /\ store # Corrupt
  /\ \A i \in 1..Len(store) :
        \/ store[i].user_id # reply.id
        \/ Lower(store[i].question) # Lower(reply.question)
        \/ Get(store[i], "cancelled", FALSE)

(***************************************************************************)
(*                       Updates delivered twice                           *)
(***************************************************************************)

\* this step, the update with this id was delivered a second time
DeliveredAgain(update_id) ==
  /\ Len(redelivered') = Len(redelivered) + 1
  /\ redelivered'[Len(redelivered')] = update_id

\* C38: the set of processed ids only grows, and a command handler given an
\* update whose id is in the set returns at once: the file, the suspended
\* handlers, the maps of the process and the set are as they were and no
\* message is sent.
C38_HandledAtMostOnce ==
  [][ /\ processed_updates \subseteq processed_updates'
      /\ \A update_id \in processed_updates :
            DeliveredAgain(update_id) =>
              /\ (store = Corrupt) = (store' = Corrupt)
              /\ store = store'
              /\ tasks' = tasks
              /\ reply' = reply
              /\ processed_updates' = processed_updates
              /\ spam_protection' = spam_protection
              /\ question_hashes' = question_hashes ]_vars

C38_AcceptedAskDeliveredTwiceMore ==
  /\ Len(redelivered) = 2
  /\ redelivered[1] = redelivered[2]
  /\ redelivered[1] \in processed_updates
  /\ store # Corrupt
  /\ Len(store) = 1
  /\ reply.op = "ask"
  /\ reply.kind = "accepted"

(***************************************************************************)
(*                         The batch commands                              *)
(***************************************************************************)

\* this step, a batch command came to its end with its summary or with
\* "nothing processed"
BatchEnded ==
  /\ reply'.op \in {"approve_all", "reject_all"}
  /\ reply'.kind \in {"done", "not_found"}
  /\ \/ CalledAndDone
     \/ \E t \in Tasks : /\ tasks[t] # Idle
                         /\ tasks[t].op = reply'.op
                         /\ tasks'[t] = Idle

\* the list the batch command that ends in this step has read
BatchSeen ==
  IF CalledAndDone THEN store
  ELSE LET t == CHOOSE t \in Tasks : tasks[t] # Idle /\ tasks'[t] = Idle
       IN  tasks[t].seen

\* C39: at the end of approve_all or reject_all the processed and the failed
\* list have no id in common and the processed list has no id twice; with
\* nothing processed the file is not written; otherwise the file written is
\* the list read, in which every listed id that had a pending, uncancelled
\* record has such a record moved to the new status, and every record not
\* moved is as it was.
C39_BatchContract ==
  [][ BatchEnded =>
        LET processed == reply'.processed
            failed == reply'.failed
            listed == Range(processed) \cup Range(failed)
            seen == BatchSeen
        IN  /\ Range(processed) \cap Range(failed) = {}
            /\ \A i, j \in 1..Len(processed) : i # j => processed[i] # processed[j]
            /\ processed = <<>> => reply'.kind = "not_found"
            /\ reply'.kind = "not_found" =>
                  (store = Corrupt) = (store' = Corrupt) /\ store = store'
            /\ reply'.kind = "done" =>
                  /\ store' # Corrupt
                  /\ Len(store') = Len(seen)
                  /\ LET moved(k) ==
                            /\ seen[k].id \in listed
                            /\ seen[k].status = "pending"
                            /\ ~Get(seen[k], "cancelled", FALSE)
                            /\ store'[k].status =
                                 IF reply'.op = "approve_all" THEN "approved" ELSE "rejected"
                     IN  /\ \A k \in 1..Len(seen) : moved(k) \/ store'[k] = seen[k]
                         /\ \A question_id \in listed :
                               FirstPending(seen, question_id) # 0 =>
                                 \E k \in 1..Len(seen) :
                                    seen[k].id = question_id /\ moved(k) ]_vars

(***************************************************************************)
(*                    Records that share their id                          *)
(***************************************************************************)

\* the record is one the loop of the operation stops at
Eligible(op, q, question_id, user_id) ==
  IF op \in {"approve", "reject"} THEN IsPendingMatch(q, question_id)
  ELSE IF op \in {"cancel", "edit"} THEN IsActiveMatch(q, question_id)
  ELSE OptInMatch(q, question_id, user_id)

\* data is the list seen with at most one record changed, the first one the
\* loop of the operation stops at
OneRecordChanged(op, seen, data, question_id, user_id) ==
  /\ Len(data) = Len(seen)
  /\ LET changed == {k \in 1..Len(seen) : data[k] # seen[k]}
     IN  /\ Cardinality(changed) <= 1
         /\ \A k \in changed :
               /\ Eligible(op, seen[k], question_id, user_id)
               /\ \A j \in 1..(k - 1) : ~Eligible(op, seen[j], question_id, user_id)

\* C40: the list a suspended approve, reject or cancel holds, and the file it
\* writes, differ from the list it read in at most one record, the first
\* record with the id its loop accepts; the file an edit or an opt-in writes
\* differs from the file it read in the same way; the file a delete writes
\* has no record with the id.
C40_OneRecordPerInvocation ==
  [][ /\ \A t \in Tasks :
            /\ (tasks'[t] # Idle /\ tasks'[t].op \in SingleOps) =>
                  OneRecordChanged(tasks'[t].op, tasks'[t].seen, tasks'[t].data,
                                   tasks'[t].id, 0)
            /\ ( /\ tasks[t] # Idle
                 /\ tasks[t].op \in SingleOps
                 /\ tasks'[t] = Idle
                 /\ reply'.kind \in {"approved", "rejected", "cancelled", "notified"} ) =>
                  /\ store' # Corrupt
                  /\ OneRecordChanged(tasks[t].op, tasks[t].seen, store', tasks[t].id, 0)
      /\ (AdminCalled("edit") /\ reply'.kind = "edited") =>
            /\ store' # Corrupt
            /\ OneRecordChanged("edit", store, store', reply'.id, 0)
      /\ (CalledAndDone /\ reply'.op = "notify" /\ reply'.kind = "notify_on") =>
            /\ store # Corrupt
            /\ store' # Corrupt
            /\ OneRecordChanged("notify", store, store', reply'.id, reply'.from)
      /\ (AdminCalled("delete") /\ reply'.kind = "deleted") =>
            /\ store' # Corrupt
            /\ Len(store') < Len(store)
            /\ \A k \in 1..Len(store') : store'[k].id # reply'.id ]_vars

C40_FirstOfTwoApproved ==
  /\ store # Corrupt
  /\ Len(store) = 2
  /\ store[1].id = store[2].id
  /\ store[1].status = "approved"
  /\ store[2].status = "pending"
  /\ ~store[2].cancelled
  /\ reply.op = "approve"
  /\ reply.kind = "approved"
  /\ reply.id = store[1].id


====
